---- MODULE Spec2Model ----
(***************************************************************************)
(* Webhook-driven synchronisation of Stripe state into five Convex tables  *)
(* (customers, subscriptions, payments, checkout_sessions, invoices).      *)
(*                                                                         *)
(* The mutations of src/component/public.ts are operators over one table;  *)
(* each runs as one atomic step (a Convex mutation is a serializable       *)
(* transaction).  The HTTP webhook handler of the client (registerRoutes / *)
(* processEvent) is a process whose steps are its awaited calls: it is an  *)
(* action, not a transaction, so other work interleaves between its calls. *)
(*                                                                         *)
(* Optional values (v.optional, JS undefined/null) are sets of at most one *)
(* element: None is "field absent", Some(v) is "field present".            *)
(* ctx.db.patch with an undefined value removes the field, which is what   *)
(* writing None does here.                                                 *)
(***************************************************************************)
EXTENDS Integers, Sequences, FiniteSets, TLC

VARIABLES customers, subscriptions, payments, checkout_sessions, invoices,
          now, pc, event, invoice, response, body, started, ticks,
          call, remoteQuantity, returned, called, succeeded, before

tables == <<customers, subscriptions, payments, checkout_sessions, invoices>>
procs == <<pc, event, invoice>>
calls == <<call, remoteQuantity, returned, called, succeeded>>
vars == <<customers, subscriptions, payments, checkout_sessions, invoices,
          now, pc, event, invoice, response, body, started, ticks,
          call, remoteQuantity, returned, called, succeeded, before>>

----------------------------------------------------------------------------
(* Bounds of the model *)

\* operations (webhook deliveries and direct calls) started in one behaviour
MaxStarted == 3
\* clock advances in one behaviour
MaxTicks == 1
\* calls of the action updateSubscriptionQuantity in one behaviour
MaxCalls == 3

----------------------------------------------------------------------------
(* Optional values and metadata bags *)

None == {}
Some(v) == {v}
The(o) == CHOOSE v \in o : TRUE
\* JS `x || d` and `x ?? d` on a value that is absent or truthy
OrElse(o, d) == IF o = None THEN d ELSE The(o)

\* a metadata bag is a set of <<key, value>> pairs; {} is the empty object
EmptyBag == {}
\* metadata.orgId / metadata.userId: the value under a key, if any
MetaGet(bag, k) == {kv[2] : kv \in {x \in bag : x[1] = k}}

----------------------------------------------------------------------------
(* Time.  Date.now() and _creationTime are milliseconds since the epoch.   *)
(* The clock starts at StartMs and keeps the real proportions between the  *)
(* epoch offset, the window and the ages, inside TLC's 32-bit integers.    *)

MsPerSec == 1000
WindowSec == 600
StartMs == 1000000 * MsPerSec
TwoMinutes == 2 * 60 * MsPerSec
TwentyMinutes == 20 * 60 * MsPerSec
TickSteps == {TwoMinutes, TwentyMinutes}

----------------------------------------------------------------------------
(* The database: a table is the sequence of its documents in insertion     *)
(* order; a document's _id is its position, documents are never removed.   *)

\* ctx.db.query(table).withIndex(index, q => q.eq(field, value))
withIndex(table, field, value) ==
    {i \in 1..Len(table) : table[i][field] = value}

\* .unique(): the matching document (None for null); it throws on two matches
unique(table, field, value) == withIndex(table, field, value)
uniqueThrows(table, field, value) ==
    Cardinality(withIndex(table, field, value)) > 1

\* .collect(): the matching documents
collect(table, field, value) ==
    {table[i] : i \in withIndex(table, field, value)}

\* ctx.db.insert appends the document; each handler spells the system fields
\* _id (the next position) and _creationTime (the commit time) in it
insert(table, doc) == Append(table, doc)
newId(table) == Len(table) + 1

----------------------------------------------------------------------------
(* Mutations of src/component/public.ts.  Each takes the table it works on, *)
(* its validated arguments and (for inserts) the commit time, and returns   *)
(* the table after the transaction.  A throwing transaction changes         *)
(* nothing.                                                                 *)

\* createOrUpdateCustomer that leaves the row it finds as it is
createOrUpdateCustomerInsertOnly(table, args, t) ==
    LET existing == unique(table, "stripeCustomerId", args.stripeCustomerId)
    IN IF existing # None THEN table
       ELSE insert(table,
                [_id |-> newId(table), _creationTime |-> t,
                 stripeCustomerId |-> args.stripeCustomerId,
                 email |-> args.email,
                 name |-> args.name,
                 metadata |-> args.metadata])

createOrUpdateCustomer(table, args, t) ==
    LET existing == unique(table, "stripeCustomerId", args.stripeCustomerId)
    IN IF Cardinality(existing) > 1 THEN table
       ELSE IF existing # None
       THEN [table EXCEPT ![The(existing)] =
                [@ EXCEPT !.email = args.email,
                          !.name = args.name,
                          !.metadata = args.metadata]]
       ELSE insert(table,
                [_id |-> newId(table), _creationTime |-> t,
                 stripeCustomerId |-> args.stripeCustomerId,
                 email |-> args.email,
                 name |-> args.name,
                 metadata |-> args.metadata])

\* the id createOrUpdateCustomer returns
createOrUpdateCustomerReturns(table, args) ==
    LET existing == unique(table, "stripeCustomerId", args.stripeCustomerId)
    IN IF existing # None THEN The(existing) ELSE newId(table)

\* updateSubscriptionMetadata inserting the subscription it does not find
updateSubscriptionMetadataUpserting(table, args) ==
    LET subscription ==
            unique(table, "stripeSubscriptionId", args.stripeSubscriptionId)
    IN IF uniqueThrows(table, "stripeSubscriptionId",
                       args.stripeSubscriptionId) THEN table
       ELSE IF subscription = None
       THEN Append(table, [_id |-> Len(table) + 1,
                           stripeSubscriptionId |-> args.stripeSubscriptionId,
                           metadata |-> Some(args.metadata),
                           orgId |-> args.orgId,
                           userId |-> args.userId])
       ELSE [table EXCEPT ![The(subscription)] =
                [@ EXCEPT !.metadata = Some(args.metadata),
                          !.orgId = args.orgId,
                          !.userId = args.userId]]

\* it throws when the subscription is not in the table
updateSubscriptionMetadataThrows(table, args) ==
    \/ uniqueThrows(table, "stripeSubscriptionId", args.stripeSubscriptionId)
    \/ unique(table, "stripeSubscriptionId", args.stripeSubscriptionId) = None

updateSubscriptionMetadata(table, args) ==
    LET subscription ==
            unique(table, "stripeSubscriptionId", args.stripeSubscriptionId)
    IN IF updateSubscriptionMetadataThrows(table, args) THEN table
       ELSE [table EXCEPT ![The(subscription)] =
                [@ EXCEPT !.metadata = Some(args.metadata),
                          !.orgId = args.orgId,
                          !.userId = args.userId]]

\* the error updateSubscriptionMetadata throws (NoError: it returns null)
NoError == <<>>
NotFoundInDatabase(stripeSubscriptionId) ==
    <<"Subscription", stripeSubscriptionId, "not found in database">>
updateSubscriptionMetadataError(table, args) ==
    IF uniqueThrows(table, "stripeSubscriptionId", args.stripeSubscriptionId)
    THEN <<"unique", args.stripeSubscriptionId>>
    ELSE IF unique(table, "stripeSubscriptionId",
                   args.stripeSubscriptionId) = None
    THEN NotFoundInDatabase(args.stripeSubscriptionId)
    ELSE NoError

updateSubscriptionQuantityInternal(table, args) ==
    LET subscription ==
            unique(table, "stripeSubscriptionId", args.stripeSubscriptionId)
    IN IF Cardinality(subscription) # 1 THEN table
       ELSE [table EXCEPT ![The(subscription)] =
                [@ EXCEPT !.quantity = Some(args.quantity)]]

handleCustomerCreated(table, args, t) ==
    LET existing == unique(table, "stripeCustomerId", args.stripeCustomerId)
    IN IF existing # None THEN table
       ELSE insert(table,
                [_id |-> newId(table), _creationTime |-> t,
                 stripeCustomerId |-> args.stripeCustomerId,
                 email |-> args.email,
                 name |-> args.name,
                 metadata |-> Some(OrElse(args.metadata, EmptyBag))])

handleCustomerUpdated(table, args) ==
    LET customer == unique(table, "stripeCustomerId", args.stripeCustomerId)
    IN IF Cardinality(customer) # 1 THEN table
       ELSE [table EXCEPT ![The(customer)] =
                [@ EXCEPT !.email = args.email,
                          !.name = args.name,
                          !.metadata = args.metadata]]

\* handleSubscriptionCreated without the lookup of an existing row
handleSubscriptionCreatedNoLookup(table, args, t) ==
    LET metadata == OrElse(args.metadata, EmptyBag)
    IN insert(table,
           [_id |-> newId(table), _creationTime |-> t,
            stripeSubscriptionId |-> args.stripeSubscriptionId,
            stripeCustomerId |-> args.stripeCustomerId,
            status |-> args.status,
            currentPeriodEnd |-> args.currentPeriodEnd,
            cancelAtPeriodEnd |-> args.cancelAtPeriodEnd,
            quantity |-> args.quantity,
            priceId |-> args.priceId,
            metadata |-> Some(metadata),
            orgId |-> MetaGet(metadata, "orgId"),
            userId |-> MetaGet(metadata, "userId")])

\* handleSubscriptionCreated leaving orgId and userId inside the bag only
handleSubscriptionCreatedNoProjection(table, args, t) ==
    LET existing ==
            unique(table, "stripeSubscriptionId", args.stripeSubscriptionId)
        metadata == OrElse(args.metadata, EmptyBag)
    IN IF existing # None THEN table
       ELSE insert(table,
                [_id |-> newId(table), _creationTime |-> t,
                 stripeSubscriptionId |-> args.stripeSubscriptionId,
                 stripeCustomerId |-> args.stripeCustomerId,
                 status |-> args.status,
                 currentPeriodEnd |-> args.currentPeriodEnd,
                 cancelAtPeriodEnd |-> args.cancelAtPeriodEnd,
                 quantity |-> args.quantity,
                 priceId |-> args.priceId,
                 metadata |-> Some(metadata),
                 orgId |-> None,
                 userId |-> None])

\* handleSubscriptionCreated that, for a subscription it finds, takes the
\* customer and the price of the arguments
handleSubscriptionCreatedOverwriting(table, args, t) ==
    LET existing ==
            unique(table, "stripeSubscriptionId", args.stripeSubscriptionId)
        metadata == OrElse(args.metadata, EmptyBag)
    IN IF Cardinality(existing) > 1 THEN table
       ELSE IF existing # None
       THEN [table EXCEPT ![The(existing)] =
                [@ EXCEPT !.stripeCustomerId = args.stripeCustomerId,
                          !.priceId = args.priceId]]
       ELSE insert(table,
                [_id |-> newId(table), _creationTime |-> t,
                 stripeSubscriptionId |-> args.stripeSubscriptionId,
                 stripeCustomerId |-> args.stripeCustomerId,
                 status |-> args.status,
                 currentPeriodEnd |-> args.currentPeriodEnd,
                 cancelAtPeriodEnd |-> args.cancelAtPeriodEnd,
                 quantity |-> args.quantity,
                 priceId |-> args.priceId,
                 metadata |-> Some(metadata),
                 orgId |-> MetaGet(metadata, "orgId"),
                 userId |-> MetaGet(metadata, "userId")])

handleSubscriptionCreated(table, args, t) ==
    LET existing ==
            unique(table, "stripeSubscriptionId", args.stripeSubscriptionId)
        metadata == OrElse(args.metadata, EmptyBag)
        orgId == MetaGet(metadata, "orgId")
        userId == MetaGet(metadata, "userId")
    IN IF existing # None THEN table
       ELSE insert(table,
                [_id |-> newId(table), _creationTime |-> t,
                 stripeSubscriptionId |-> args.stripeSubscriptionId,
                 stripeCustomerId |-> args.stripeCustomerId,
                 status |-> args.status,
                 currentPeriodEnd |-> args.currentPeriodEnd,
                 cancelAtPeriodEnd |-> args.cancelAtPeriodEnd,
                 quantity |-> args.quantity,
                 priceId |-> args.priceId,
                 metadata |-> Some(metadata),
                 orgId |-> orgId,
                 userId |-> userId])

\* handleSubscriptionUpdated writing metadata, orgId and userId whether or
\* not the argument was given
handleSubscriptionUpdatedWholeRow(table, args) ==
    LET subscription ==
            unique(table, "stripeSubscriptionId", args.stripeSubscriptionId)
        metadata == OrElse(args.metadata, EmptyBag)
    IN IF Cardinality(subscription) # 1 THEN table
       ELSE [table EXCEPT ![The(subscription)] =
                [@ EXCEPT !.status = args.status,
                          !.currentPeriodEnd = args.currentPeriodEnd,
                          !.cancelAtPeriodEnd = args.cancelAtPeriodEnd,
                          !.quantity = args.quantity,
                          !.metadata = Some(metadata),
                          !.orgId = MetaGet(metadata, "orgId"),
                          !.userId = MetaGet(metadata, "userId")]]

\* handleSubscriptionUpdated leaving the quantity out of its patch
handleSubscriptionUpdatedKeepingQuantity(table, args) ==
    LET subscription ==
            unique(table, "stripeSubscriptionId", args.stripeSubscriptionId)
        metadata == OrElse(args.metadata, EmptyBag)
        orgId == MetaGet(metadata, "orgId")
        userId == MetaGet(metadata, "userId")
    IN IF Cardinality(subscription) # 1 THEN table
       ELSE [table EXCEPT ![The(subscription)] =
                [@ EXCEPT !.status = args.status,
                          !.currentPeriodEnd = args.currentPeriodEnd,
                          !.cancelAtPeriodEnd = args.cancelAtPeriodEnd,
                          !.metadata = IF args.metadata # None
                                       THEN Some(metadata) ELSE @,
                          !.orgId = IF orgId # None THEN orgId ELSE @,
                          !.userId = IF userId # None THEN userId ELSE @]]

handleSubscriptionUpdated(table, args) ==
    LET subscription ==
            unique(table, "stripeSubscriptionId", args.stripeSubscriptionId)
        metadata == OrElse(args.metadata, EmptyBag)
        orgId == MetaGet(metadata, "orgId")
        userId == MetaGet(metadata, "userId")
    IN IF Cardinality(subscription) # 1 THEN table
       ELSE [table EXCEPT ![The(subscription)] =
                [@ EXCEPT !.status = args.status,
                          !.currentPeriodEnd = args.currentPeriodEnd,
                          !.cancelAtPeriodEnd = args.cancelAtPeriodEnd,
                          !.quantity = args.quantity,
                          !.metadata = IF args.metadata # None
                                       THEN Some(metadata) ELSE @,
                          !.orgId = IF orgId # None THEN orgId ELSE @,
                          !.userId = IF userId # None THEN userId ELSE @]]

\* handleSubscriptionDeleted deleting the document
handleSubscriptionDeletedRemoving(table, args) ==
    SelectSeq(table,
              LAMBDA doc : doc.stripeSubscriptionId # args.stripeSubscriptionId)

\* handleSubscriptionDeleted also ending the period in its patch
handleSubscriptionDeletedEndingPeriod(table, args) ==
    LET subscription ==
            unique(table, "stripeSubscriptionId", args.stripeSubscriptionId)
    IN IF Cardinality(subscription) # 1 THEN table
       ELSE [table EXCEPT ![The(subscription)] =
                [@ EXCEPT !.status = "canceled",
                          !.cancelAtPeriodEnd = TRUE]]

handleSubscriptionDeleted(table, args) ==
    LET subscription ==
            unique(table, "stripeSubscriptionId", args.stripeSubscriptionId)
    IN IF Cardinality(subscription) # 1 THEN table
       ELSE [table EXCEPT ![The(subscription)] =
                [@ EXCEPT !.status = "canceled"]]

handleCheckoutSessionCompleted(table, args, t) ==
    LET existing == unique(table, "stripeCheckoutSessionId",
                           args.stripeCheckoutSessionId)
    IN IF Cardinality(existing) > 1 THEN table
       ELSE IF existing # None
       THEN [table EXCEPT ![The(existing)] =
                [@ EXCEPT !.status = "complete",
                          !.stripeCustomerId = args.stripeCustomerId]]
       ELSE insert(table,
                [_id |-> newId(table), _creationTime |-> t,
                 stripeCheckoutSessionId |-> args.stripeCheckoutSessionId,
                 stripeCustomerId |-> args.stripeCustomerId,
                 status |-> "complete",
                 mode |-> args.mode,
                 metadata |-> Some(OrElse(args.metadata, EmptyBag))])

\* handleInvoiceCreated without the lookup of an existing row
handleInvoiceCreatedNoLookup(table, args, t) ==
    insert(table,
        [_id |-> newId(table), _creationTime |-> t,
         stripeInvoiceId |-> args.stripeInvoiceId,
         stripeCustomerId |-> args.stripeCustomerId,
         stripeSubscriptionId |-> args.stripeSubscriptionId,
         status |-> args.status,
         amountDue |-> args.amountDue,
         amountPaid |-> args.amountPaid,
         created |-> args.created])

handleInvoiceCreated(table, args, t) ==
    LET existing == unique(table, "stripeInvoiceId", args.stripeInvoiceId)
    IN IF existing # None THEN table
       ELSE insert(table,
                [_id |-> newId(table), _creationTime |-> t,
                 stripeInvoiceId |-> args.stripeInvoiceId,
                 stripeCustomerId |-> args.stripeCustomerId,
                 stripeSubscriptionId |-> args.stripeSubscriptionId,
                 status |-> args.status,
                 amountDue |-> args.amountDue,
                 amountPaid |-> args.amountPaid,
                 created |-> args.created])

\* handleInvoicePaid adding the amount to the stored one
handleInvoicePaidAdding(table, args) ==
    LET inv == unique(table, "stripeInvoiceId", args.stripeInvoiceId)
    IN IF Cardinality(inv) # 1 THEN table
       ELSE [table EXCEPT ![The(inv)] =
                [@ EXCEPT !.status = "paid",
                          !.amountPaid = @ + args.amountPaid]]

handleInvoicePaid(table, args) ==
    LET inv == unique(table, "stripeInvoiceId", args.stripeInvoiceId)
    IN IF Cardinality(inv) # 1 THEN table
       ELSE [table EXCEPT ![The(inv)] =
                [@ EXCEPT !.status = "paid",
                          !.amountPaid = args.amountPaid]]

\* handleInvoicePaymentFailed inserting the invoice it does not find
handleInvoicePaymentFailedUpserting(table, args) ==
    LET inv == unique(table, "stripeInvoiceId", args.stripeInvoiceId)
    IN IF Cardinality(inv) > 1 THEN table
       ELSE IF inv = None
       THEN insert(table,
                [_id |-> newId(table), _creationTime |-> 0,
                 stripeInvoiceId |-> args.stripeInvoiceId,
                 stripeCustomerId |-> "", stripeSubscriptionId |-> None,
                 status |-> "open", amountDue |-> 0, amountPaid |-> 0,
                 created |-> 0])
       ELSE [table EXCEPT ![The(inv)] = [@ EXCEPT !.status = "open"]]

handleInvoicePaymentFailed(table, args) ==
    LET inv == unique(table, "stripeInvoiceId", args.stripeInvoiceId)
    IN IF Cardinality(inv) # 1 THEN table
       ELSE [table EXCEPT ![The(inv)] = [@ EXCEPT !.status = "open"]]

\* handlePaymentIntentSucceeded that also takes the metadata of a repeated
\* notification
handlePaymentIntentSucceededRefreshing(table, args, t) ==
    LET existing == unique(table, "stripePaymentIntentId",
                           args.stripePaymentIntentId)
        metadata == OrElse(args.metadata, EmptyBag)
    IN IF Cardinality(existing) > 1 THEN table
       ELSE IF existing = None
       THEN insert(table,
                [_id |-> newId(table), _creationTime |-> t,
                 stripePaymentIntentId |-> args.stripePaymentIntentId,
                 stripeCustomerId |-> args.stripeCustomerId,
                 amount |-> args.amount,
                 currency |-> args.currency,
                 status |-> args.status,
                 created |-> args.created,
                 metadata |-> Some(metadata),
                 orgId |-> MetaGet(metadata, "orgId"),
                 userId |-> MetaGet(metadata, "userId")])
       ELSE [table EXCEPT ![The(existing)] =
                [@ EXCEPT !.stripeCustomerId =
                              IF @ = None THEN args.stripeCustomerId ELSE @,
                          !.metadata = Some(metadata)]]

handlePaymentIntentSucceeded(table, args, t) ==
    LET existing == unique(table, "stripePaymentIntentId",
                           args.stripePaymentIntentId)
        metadata == OrElse(args.metadata, EmptyBag)
        orgId == MetaGet(metadata, "orgId")
        userId == MetaGet(metadata, "userId")
    IN IF Cardinality(existing) > 1 THEN table
       ELSE IF existing = None
       THEN insert(table,
                [_id |-> newId(table), _creationTime |-> t,
                 stripePaymentIntentId |-> args.stripePaymentIntentId,
                 stripeCustomerId |-> args.stripeCustomerId,
                 amount |-> args.amount,
                 currency |-> args.currency,
                 status |-> args.status,
                 created |-> args.created,
                 metadata |-> Some(metadata),
                 orgId |-> orgId,
                 userId |-> userId])
       ELSE IF args.stripeCustomerId # None
               /\ table[The(existing)].stripeCustomerId = None
       THEN [table EXCEPT ![The(existing)] =
                [@ EXCEPT !.stripeCustomerId = args.stripeCustomerId]]
       ELSE table

\* updatePaymentCustomer without the test that the customer is unset
updatePaymentCustomerOverwriting(table, args) ==
    LET payment == unique(table, "stripePaymentIntentId",
                          args.stripePaymentIntentId)
    IN IF Cardinality(payment) = 1
       THEN [table EXCEPT ![The(payment)] =
                [@ EXCEPT !.stripeCustomerId = Some(args.stripeCustomerId)]]
       ELSE table

\* updatePaymentCustomer with its test on the stored customer id inverted
updatePaymentCustomerWhenSet(table, args) ==
    LET payment == unique(table, "stripePaymentIntentId",
                          args.stripePaymentIntentId)
    IN IF Cardinality(payment) = 1
          /\ table[The(payment)].stripeCustomerId # None
       THEN [table EXCEPT ![The(payment)] =
                [@ EXCEPT !.stripeCustomerId = Some(args.stripeCustomerId)]]
       ELSE table

updatePaymentCustomer(table, args) ==
    LET payment == unique(table, "stripePaymentIntentId",
                          args.stripePaymentIntentId)
    IN IF Cardinality(payment) = 1
          /\ table[The(payment)].stripeCustomerId = None
       THEN [table EXCEPT ![The(payment)] =
                [@ EXCEPT !.stripeCustomerId = Some(args.stripeCustomerId)]]
       ELSE table

----------------------------------------------------------------------------
(* Stripe objects carried by the events (event.data.object).  Each set     *)
(* holds a few whole objects that differ in every field the handlers read. *)

LinkBag == {<<"orgId", "org_1">>, <<"userId", "u_1">>, <<"plan", "pro">>}
PlanBag == {<<"plan", "free">>}

CustomerObjects ==
    { [id |-> "cus_A", email |-> Some("a@x.io"), name |-> Some("Ann"),
       metadata |-> EmptyBag],
      [id |-> "cus_A", email |-> None, name |-> None,
       metadata |-> PlanBag] }

SubscriptionObjects ==
    { [id |-> "sub_1", customer |-> "cus_A", status |-> "active",
       item |-> Some([current_period_end |-> 1000, quantity |-> Some(5),
                      price |-> "price_1"]),
       cancel_at_period_end |-> Some(FALSE), metadata |-> Some(LinkBag)],
      [id |-> "sub_1", customer |-> "cus_B", status |-> "past_due",
       item |-> Some([current_period_end |-> 2000, quantity |-> Some(10),
                      price |-> "price_2"]),
       cancel_at_period_end |-> Some(TRUE), metadata |-> Some(EmptyBag)] }

CheckoutSessionObjects ==
    { [id |-> "cs_1", customer |-> Some("cus_A"), mode |-> Some("payment"),
       payment_intent |-> Some("pi_1"), metadata |-> None],
      [id |-> "cs_1", customer |-> Some("cus_B"), mode |-> Some("payment"),
       payment_intent |-> Some("pi_1"), metadata |-> Some(PlanBag)],
      [id |-> "cs_1", customer |-> None, mode |-> Some("subscription"),
       payment_intent |-> None, metadata |-> None] }

\* sessions that lack one of mode "payment", customer and payment intent,
\* and a second session
MoreCheckoutSessionObjects ==
    { [id |-> "cs_1", customer |-> Some("cus_A"), mode |-> Some("payment"),
       payment_intent |-> None, metadata |-> None],
      [id |-> "cs_1", customer |-> None, mode |-> Some("payment"),
       payment_intent |-> Some("pi_1"), metadata |-> None],
      [id |-> "cs_1", customer |-> Some("cus_A"),
       mode |-> Some("subscription"), payment_intent |-> Some("pi_1"),
       metadata |-> None],
      [id |-> "cs_1", customer |-> Some("cus_A"), mode |-> None,
       payment_intent |-> Some("pi_1"), metadata |-> None],
      [id |-> "cs_2", customer |-> Some("cus_B"), mode |-> Some("payment"),
       payment_intent |-> Some("pi_1"), metadata |-> None] }

InvoiceObjects ==
    { [id |-> "in_1", customer |-> "cus_A", subscription |-> Some("sub_1"),
       status |-> Some("draft"), amount_due |-> 500, amount_paid |-> 0,
       created |-> 1000],
      [id |-> "in_1", customer |-> "cus_B", subscription |-> None,
       status |-> None, amount_due |-> 700, amount_paid |-> 700,
       created |-> 2000] }

PaymentIntentObjects ==
    { [id |-> "pi_1", invoice |-> c[1], customer |-> c[2], amount |-> c[3],
       currency |-> c[4], status |-> "succeeded", created |-> c[5],
       metadata |-> c[6]] :
        c \in { <<None, None, 1999, "usd", 1000, None>>,
                <<None, Some("cus_A"), 4999, "usd", 2000, Some(LinkBag)>>,
                <<None, Some("cus_B"), 5500, "eur", 3000, Some(EmptyBag)>>,
                <<Some("in_1"), None, 1999, "usd", 1000, None>>,
                <<Some("in_1"), Some("cus_A"), 4999, "usd", 2000,
                  Some(LinkBag)>> } }

ObjectsOf(type) ==
    CASE type \in {"customer.created", "customer.updated"} -> CustomerObjects
      [] type \in {"customer.subscription.created",
                   "customer.subscription.updated",
                   "customer.subscription.deleted"} -> SubscriptionObjects
      [] type = "checkout.session.completed" -> CheckoutSessionObjects
      [] type \in {"invoice.created", "invoice.finalized", "invoice.paid",
                   "invoice.payment_succeeded", "invoice.payment_failed"}
            -> InvoiceObjects
      [] type = "payment_intent.succeeded" -> PaymentIntentObjects
      [] OTHER -> {[id |-> "ch_1"]}

HandledTypes ==
    {"customer.created", "customer.updated",
     "customer.subscription.created", "customer.subscription.updated",
     "customer.subscription.deleted", "checkout.session.completed",
     "invoice.created", "invoice.finalized", "invoice.paid",
     "invoice.payment_succeeded", "invoice.payment_failed",
     "payment_intent.succeeded"}

EventTypes == HandledTypes \cup {"charge.succeeded"}

\* the events of some types
EventsOf(types) ==
    UNION {{[type |-> ty, object |-> o] : o \in ObjectsOf(ty)} : ty \in types}

\* the events that take part in recording a one-time payment
PaymentFlowTypes ==
    {"customer.subscription.created", "checkout.session.completed",
     "payment_intent.succeeded"}

NoEvent == [type |-> "none"]

----------------------------------------------------------------------------
(* processEvent: the arguments each case passes to its mutation *)

customerArgs(o) ==
    [stripeCustomerId |-> o.id, email |-> o.email, name |-> o.name,
     metadata |-> Some(o.metadata)]

subscriptionCreatedArgs(o) ==
    [stripeSubscriptionId |-> o.id,
     stripeCustomerId |-> o.customer,
     status |-> o.status,
     currentPeriodEnd |->
        IF o.item = None THEN 0 ELSE The(o.item).current_period_end,
     cancelAtPeriodEnd |-> OrElse(o.cancel_at_period_end, FALSE),
     quantity |->
        Some(IF o.item = None THEN 1 ELSE OrElse(The(o.item).quantity, 1)),
     priceId |-> IF o.item = None THEN "" ELSE The(o.item).price,
     metadata |-> Some(OrElse(o.metadata, EmptyBag))]

subscriptionUpdatedArgs(o) ==
    [stripeSubscriptionId |-> o.id,
     status |-> o.status,
     currentPeriodEnd |->
        IF o.item = None THEN 0 ELSE The(o.item).current_period_end,
     cancelAtPeriodEnd |-> OrElse(o.cancel_at_period_end, FALSE),
     quantity |->
        Some(IF o.item = None THEN 1 ELSE OrElse(The(o.item).quantity, 1)),
     metadata |-> Some(OrElse(o.metadata, EmptyBag))]

subscriptionDeletedArgs(o) == [stripeSubscriptionId |-> o.id]

checkoutSessionArgs(o) ==
    [stripeCheckoutSessionId |-> o.id,
     stripeCustomerId |-> o.customer,
     mode |-> OrElse(o.mode, "payment"),
     metadata |-> o.metadata]

\* linksPayment whatever the mode of the session
linksPaymentAnyMode(o) ==
    o.customer # None /\ o.payment_intent # None

\* "For payment mode, link the payment to the customer if we have both"
linksPayment(o) ==
    o.mode = Some("payment") /\ o.customer # None /\ o.payment_intent # None

paymentCustomerArgs(o) ==
    [stripePaymentIntentId |-> The(o.payment_intent),
     stripeCustomerId |-> The(o.customer)]

invoiceCreatedArgs(o) ==
    [stripeInvoiceId |-> o.id,
     stripeCustomerId |-> o.customer,
     stripeSubscriptionId |-> o.subscription,
     status |-> OrElse(o.status, "open"),
     amountDue |-> o.amount_due,
     amountPaid |-> o.amount_paid,
     created |-> o.created]

invoicePaidArgs(o) == [stripeInvoiceId |-> o.id, amountPaid |-> o.amount_paid]

invoicePaymentFailedArgs(o) == [stripeInvoiceId |-> o.id]

paymentIntentArgs(o) ==
    [stripePaymentIntentId |-> o.id,
     stripeCustomerId |-> o.customer,
     amount |-> o.amount,
     currency |-> o.currency,
     status |-> o.status,
     created |-> o.created,
     metadata |-> Some(OrElse(o.metadata, EmptyBag))]

----------------------------------------------------------------------------
(* The payment classifier of the payment_intent.succeeded case *)

\* const tenMinutesAgo = Date.now() / 1000 - 600
tenMinutesAgo(dateNow) == (dateNow \div MsPerSec) - WindowSec

\* the find with the comparison turned round
recentSubscriptionOlder(recentSubscriptions, dateNow) ==
    {sub \in recentSubscriptions : sub._creationTime < tenMinutesAgo(dateNow)}

\* recentSubscriptions.find(sub => sub._creationTime > tenMinutesAgo)
recentSubscription(recentSubscriptions, dateNow) ==
    {sub \in recentSubscriptions : sub._creationTime > tenMinutesAgo(dateNow)}

\* listSubscriptions: the subscriptions of a customer
listSubscriptions(table, stripeCustomerId) ==
    collect(table, "stripeCustomerId", stripeCustomerId)

\* where the case goes after the invoice check
afterInvoiceCheck(o) ==
    IF o.customer # None THEN "listSubscriptions"
    ELSE "handlePaymentIntentSucceeded"

\* firstCall with no default case: every event is handed to a mutation
firstCallDispatchingAll(e) ==
    IF e.type # "payment_intent.succeeded" THEN "runMutation"
    ELSE IF e.object.invoice # None THEN "retrieveInvoice"
    ELSE afterInvoiceCheck(e.object)

\* the first awaited call of processEvent for an event
firstCall(e) ==
    IF e.type \notin HandledTypes THEN "hooks"
    ELSE IF e.type # "payment_intent.succeeded" THEN "runMutation"
    ELSE IF e.object.invoice # None THEN "retrieveInvoice"
    ELSE afterInvoiceCheck(e.object)

----------------------------------------------------------------------------
(* The webhook route of registerRoutes.  Two requests can be in flight.    *)
(* pc is the call a request awaits next; invoice is the local variable of  *)
(* the payment_intent.succeeded case; response and body are the HTTP       *)
(* status and the text of the answer the latest step sent (0 and "" when   *)
(* it sent none).                                                          *)

Procs == {"w1", "w2"}

\* before is, for the request a process handled last in the checkout
\* flow, the five tables as they were when it arrived, the number of
\* operations started by then, and whether no other request was in flight
NoSnapshot == [tables |-> <<<<>>, <<>>, <<>>, <<>>, <<>>>>, started |-> 0,
               alone |-> FALSE]

\* The action updateSubscriptionQuantity.  Two calls can be in flight.
\* call is the position of a call (the call it awaits next) and its
\* arguments; remoteQuantity is the quantity of the first item of each
\* subscription the remote service holds (None: the subscription has no
\* items); returned is what the latest step of a call delivered to its
\* caller ("null", "error", or "none" when it delivered nothing); called
\* and succeeded count the calls made and the calls that returned null.
Callers == {"a1", "a2"}
QuantityArgs ==
    {[stripeSubscriptionId |-> s, quantity |-> q] :
        s \in {"sub_1", "sub_2"}, q \in {5, 7}}
NoCall == [pc |-> "idle", args |-> [stripeSubscriptionId |-> "none",
                                    quantity |-> 0]]
RemoteStart == [s \in {"sub_1", "sub_2"} |->
                   IF s = "sub_1" THEN Some(1) ELSE None]
Signatures == {"valid", "invalid", "missing"}
NotFetched == [result |-> "none", subscription |-> None]
FetchError == [result |-> "error", subscription |-> None]
RemoteInvoices == { [result |-> "ok", subscription |-> Some("sub_1")],
                    [result |-> "ok", subscription |-> None] }

Init ==
    /\ customers = <<>>
    /\ subscriptions = <<>>
    /\ payments = <<>>
    /\ checkout_sessions = <<>>
    /\ invoices = <<>>
    /\ now = StartMs
    /\ pc = [p \in Procs |-> "idle"]
    /\ event = [p \in Procs |-> NoEvent]
    /\ invoice = [p \in Procs |-> NotFetched]
    /\ response = 0
    /\ body = ""
    /\ started = 0
    /\ ticks = 0
    /\ call = [a \in Callers |-> NoCall]
    /\ remoteQuantity = RemoteStart
    /\ returned = "none"
    /\ called = 0
    /\ succeeded = 0
    /\ before = [p \in Procs |-> NoSnapshot]

\* the texts of the answers
SecretNotConfigured == "Webhook secret not configured"
NoSignature == "No signature provided"
KeyNotConfigured == "Stripe secret key not configured"
VerificationFailed == "Webhook signature verification failed"
ProcessingError == "Error processing webhook"
Received == "received"

\* the step sends no answer
silent == response' = 0 /\ body' = ""

\* the step sends an answer
answer(status, text) == response' = status /\ body' = text

\* rejection without the verification of the signature: a signature that
\* is present passes
rejectionUnverified(webhookSecret, signature, secretKey) ==
    IF ~webhookSecret THEN <<500, "Webhook secret not configured">>
    ELSE IF signature = "missing" THEN <<400, "No signature provided">>
    ELSE IF ~secretKey THEN <<500, "Stripe secret key not configured">>
    ELSE <<0, "">>

\* the checks of the route before processEvent, in their order: the answer
\* that rejects the request, or <<0, "">> when the event is verified
rejection(webhookSecret, signature, secretKey) ==
    IF ~webhookSecret THEN <<500, SecretNotConfigured>>
    ELSE IF signature = "missing" THEN <<400, NoSignature>>
    ELSE IF ~secretKey THEN <<500, KeyNotConfigured>>
    ELSE IF signature = "invalid" THEN <<400, VerificationFailed>>
    ELSE <<0, "">>

\* the request moves on to its next awaited call
advance(p, next) ==
    /\ pc' = [pc EXCEPT ![p] = next]
    /\ silent
    /\ UNCHANGED <<event, invoice>>

\* the request ends with an HTTP status and its locals are gone
respond(p, status) ==
    /\ pc' = [pc EXCEPT ![p] = "idle"]
    /\ answer(status, IF status = 200 THEN Received ELSE ProcessingError)
    /\ event' = [event EXCEPT ![p] = NoEvent]
    /\ invoice' = [invoice EXCEPT ![p] = NotFetched]

\* time passes
Tick ==
    /\ ticks < MaxTicks
    /\ \E d \in TickSteps : now' = now + d
    /\ ticks' = ticks + 1
    /\ silent
    /\ UNCHANGED <<tables, procs, started, calls, before>>

\* a request arrives; one that fails a check of the route is answered
\* before any event exists, a verified one enters processEvent
arrive(p, events) ==
    /\ pc[p] = "idle"
    /\ started < MaxStarted
    /\ started' = started + 1
    /\ \E webhookSecret \in BOOLEAN, signature \in Signatures,
          secretKey \in BOOLEAN :
          LET rejected == rejection(webhookSecret, signature, secretKey)
          IN IF rejected[1] # 0
             THEN /\ answer(rejected[1], rejected[2])
                  /\ UNCHANGED <<pc, event>>
             ELSE \E e \in events :
                     /\ pc' = [pc EXCEPT ![p] = firstCall(e)]
                     /\ event' = [event EXCEPT ![p] = e]
                     /\ silent
    /\ UNCHANGED invoice
    /\ UNCHANGED <<tables, now, ticks, calls>>

\* a request with an event of some types arrives
receive(p, types) ==
    /\ arrive(p, EventsOf(types))
    /\ UNCHANGED before

Receive(p) == receive(p, EventTypes)

\* a checkout.session.completed request arrives, its session with or
\* without mode, customer and payment intent
ReceiveCheckout(p) ==
    /\ arrive(p, {[type |-> "checkout.session.completed", object |-> o] :
                     o \in CheckoutSessionObjects
                           \cup MoreCheckoutSessionObjects})
    /\ before' = [before EXCEPT ![p] =
                     [tables |-> tables,
                      started |-> started + 1,
                      alone |-> \A q \in Procs \ {p} : pc[q] = "idle"]]

\* a request of the payment flow arrives
ReceivePaymentFlow(p) == receive(p, PaymentFlowTypes)

\* what a runMutation leaves when .unique() throws in the mutation: the
\* transaction is rolled back and the catch block answers 500
mutationThrew(p) ==
    /\ respond(p, 500)
    /\ UNCHANGED tables

\* case "customer.created" / "customer.updated"
CustomerEvent(p) ==
    /\ pc[p] = "runMutation"
    /\ event[p].type \in {"customer.created", "customer.updated"}
    /\ LET args == customerArgs(event[p].object)
       IN IF uniqueThrows(customers, "stripeCustomerId", args.stripeCustomerId)
          THEN mutationThrew(p)
          ELSE /\ customers' =
                    IF event[p].type = "customer.created"
                    THEN handleCustomerCreated(customers, args, now)
                    ELSE handleCustomerUpdated(customers, args)
               /\ advance(p, "hooks")
               /\ UNCHANGED <<subscriptions, payments, checkout_sessions,
                              invoices>>
    /\ UNCHANGED <<now, started, ticks, calls, before>>

\* case "customer.subscription.created"
SubscriptionCreatedEvent(p) ==
    /\ pc[p] = "runMutation"
    /\ event[p].type = "customer.subscription.created"
    /\ LET args == subscriptionCreatedArgs(event[p].object)
       IN IF uniqueThrows(subscriptions, "stripeSubscriptionId",
                          args.stripeSubscriptionId)
          THEN mutationThrew(p)
          ELSE /\ subscriptions' =
                    handleSubscriptionCreated(subscriptions, args, now)
               /\ advance(p, "hooks")
               /\ UNCHANGED <<customers, payments, checkout_sessions,
                              invoices>>
    /\ UNCHANGED <<now, started, ticks, calls, before>>

\* case "customer.subscription.updated"
SubscriptionUpdatedEvent(p) ==
    /\ pc[p] = "runMutation"
    /\ event[p].type = "customer.subscription.updated"
    /\ LET args == subscriptionUpdatedArgs(event[p].object)
       IN IF uniqueThrows(subscriptions, "stripeSubscriptionId",
                          args.stripeSubscriptionId)
          THEN mutationThrew(p)
          ELSE /\ subscriptions' =
                    handleSubscriptionUpdated(subscriptions, args)
               /\ advance(p, "hooks")
               /\ UNCHANGED <<customers, payments, checkout_sessions,
                              invoices>>
    /\ UNCHANGED <<now, started, ticks, calls, before>>

\* case "customer.subscription.deleted"
SubscriptionDeletedEvent(p) ==
    /\ pc[p] = "runMutation"
    /\ event[p].type = "customer.subscription.deleted"
    /\ LET args == subscriptionDeletedArgs(event[p].object)
       IN IF uniqueThrows(subscriptions, "stripeSubscriptionId",
                          args.stripeSubscriptionId)
          THEN mutationThrew(p)
          ELSE /\ subscriptions' =
                    handleSubscriptionDeleted(subscriptions, args)
               /\ advance(p, "hooks")
               /\ UNCHANGED <<customers, payments, checkout_sessions,
                              invoices>>
    /\ UNCHANGED <<now, started, ticks, calls, before>>

\* case "checkout.session.completed", first mutation
CheckoutSessionCompletedEvent(p) ==
    /\ pc[p] = "runMutation"
    /\ event[p].type = "checkout.session.completed"
    /\ LET args == checkoutSessionArgs(event[p].object)
       IN IF uniqueThrows(checkout_sessions, "stripeCheckoutSessionId",
                          args.stripeCheckoutSessionId)
          THEN mutationThrew(p)
          ELSE /\ checkout_sessions' =
                    handleCheckoutSessionCompleted(checkout_sessions, args,
                                                   now)
               /\ advance(p, IF linksPayment(event[p].object)
                             THEN "updatePaymentCustomer" ELSE "hooks")
               /\ UNCHANGED <<customers, subscriptions, payments, invoices>>
    /\ UNCHANGED <<now, started, ticks, calls, before>>

\* case "checkout.session.completed", second mutation
LinkPaymentCustomer(p) ==
    /\ pc[p] = "updatePaymentCustomer"
    /\ LET args == paymentCustomerArgs(event[p].object)
       IN IF uniqueThrows(payments, "stripePaymentIntentId",
                          args.stripePaymentIntentId)
          THEN mutationThrew(p)
          ELSE /\ payments' = updatePaymentCustomer(payments, args)
               /\ advance(p, "hooks")
               /\ UNCHANGED <<customers, subscriptions, checkout_sessions,
                              invoices>>
    /\ UNCHANGED <<now, started, ticks, calls, before>>

\* case "invoice.created" / "invoice.finalized"
InvoiceCreatedEvent(p) ==
    /\ pc[p] = "runMutation"
    /\ event[p].type \in {"invoice.created", "invoice.finalized"}
    /\ LET args == invoiceCreatedArgs(event[p].object)
       IN IF uniqueThrows(invoices, "stripeInvoiceId", args.stripeInvoiceId)
          THEN mutationThrew(p)
          ELSE /\ invoices' = handleInvoiceCreated(invoices, args, now)
               /\ advance(p, "hooks")
               /\ UNCHANGED <<customers, subscriptions, payments,
                              checkout_sessions>>
    /\ UNCHANGED <<now, started, ticks, calls, before>>

\* InvoicePaidEvent where invoice.payment_succeeded marks the invoice paid
\* and leaves its amountPaid
InvoicePaidEventKeepingAmount(p) ==
    /\ pc[p] = "runMutation"
    /\ event[p].type \in {"invoice.paid", "invoice.payment_succeeded"}
    /\ LET args == invoicePaidArgs(event[p].object)
           inv == unique(invoices, "stripeInvoiceId", args.stripeInvoiceId)
       IN /\ invoices' =
                IF event[p].type = "invoice.paid" \/ Cardinality(inv) # 1
                THEN handleInvoicePaid(invoices, args)
                ELSE [invoices EXCEPT ![The(inv)] =
                         [@ EXCEPT !.status = "paid"]]
          /\ advance(p, "hooks")
          /\ UNCHANGED <<customers, subscriptions, payments,
                         checkout_sessions>>
    /\ UNCHANGED <<now, started, ticks, calls, before>>

\* case "invoice.paid" / "invoice.payment_succeeded"
InvoicePaidEvent(p) ==
    /\ pc[p] = "runMutation"
    /\ event[p].type \in {"invoice.paid", "invoice.payment_succeeded"}
    /\ LET args == invoicePaidArgs(event[p].object)
       IN IF uniqueThrows(invoices, "stripeInvoiceId", args.stripeInvoiceId)
          THEN mutationThrew(p)
          ELSE /\ invoices' = handleInvoicePaid(invoices, args)
               /\ advance(p, "hooks")
               /\ UNCHANGED <<customers, subscriptions, payments,
                              checkout_sessions>>
    /\ UNCHANGED <<now, started, ticks, calls, before>>

\* case "invoice.payment_failed"
InvoicePaymentFailedEvent(p) ==
    /\ pc[p] = "runMutation"
    /\ event[p].type = "invoice.payment_failed"
    /\ LET args == invoicePaymentFailedArgs(event[p].object)
       IN IF uniqueThrows(invoices, "stripeInvoiceId", args.stripeInvoiceId)
          THEN mutationThrew(p)
          ELSE /\ invoices' = handleInvoicePaymentFailed(invoices, args)
               /\ advance(p, "hooks")
               /\ UNCHANGED <<customers, subscriptions, payments,
                              checkout_sessions>>
    /\ UNCHANGED <<now, started, ticks, calls, before>>

\* RetrieveInvoice going on to the later checks whatever the invoice names
RetrieveInvoiceIgnoringSubscription(p) ==
    /\ pc[p] = "retrieveInvoice"
    /\ \E remote \in RemoteInvoices :
          /\ invoice' = [invoice EXCEPT ![p] = remote]
          /\ pc' = [pc EXCEPT ![p] = afterInvoiceCheck(event[p].object)]
    /\ silent
    /\ UNCHANGED <<tables, now, event, started, ticks, calls, before>>

\* case "payment_intent.succeeded": stripe.invoices.retrieve returns the
\* remote invoice; one that names a subscription ends the case (break)
RetrieveInvoice(p) ==
    /\ pc[p] = "retrieveInvoice"
    /\ \E remote \in RemoteInvoices :
          /\ invoice' = [invoice EXCEPT ![p] = remote]
          /\ pc' = [pc EXCEPT ![p] =
                      IF remote.subscription # None THEN "hooks"
                      ELSE afterInvoiceCheck(event[p].object)]
    /\ silent
    /\ UNCHANGED <<tables, now, event, started, ticks, calls, before>>

\* RetrieveInvoiceFails without the try/catch round the retrieve
RetrieveInvoiceFailsUncaught(p) ==
    /\ pc[p] = "retrieveInvoice"
    /\ respond(p, 500)
    /\ UNCHANGED <<tables, now, started, ticks, calls, before>>

\* stripe.invoices.retrieve throws: the catch logs it and the case goes on
RetrieveInvoiceFails(p) ==
    /\ pc[p] = "retrieveInvoice"
    /\ invoice' = [invoice EXCEPT ![p] = FetchError]
    /\ pc' = [pc EXCEPT ![p] = afterInvoiceCheck(event[p].object)]
    /\ silent
    /\ UNCHANGED <<tables, now, event, started, ticks, calls, before>>

\* the query of the customer's subscriptions and the recency check on it
ListSubscriptions(p) ==
    /\ pc[p] = "listSubscriptions"
    /\ LET recentSubscriptions ==
               listSubscriptions(subscriptions, The(event[p].object.customer))
       IN advance(p, IF recentSubscription(recentSubscriptions, now) # {}
                     THEN "hooks"
                     ELSE "handlePaymentIntentSucceeded")
    /\ UNCHANGED <<tables, now, started, ticks, calls, before>>

\* the Payment upsert
PaymentIntentSucceededEvent(p) ==
    /\ pc[p] = "handlePaymentIntentSucceeded"
    /\ LET args == paymentIntentArgs(event[p].object)
       IN IF uniqueThrows(payments, "stripePaymentIntentId",
                          args.stripePaymentIntentId)
          THEN mutationThrew(p)
          ELSE /\ payments' = handlePaymentIntentSucceeded(payments, args, now)
               /\ advance(p, "hooks")
               /\ UNCHANGED <<customers, subscriptions, checkout_sessions,
                              invoices>>
    /\ UNCHANGED <<now, started, ticks, calls, before>>

\* CallFails with the error ignored: the request goes on to the hooks
CallFailsIgnored(p) ==
    /\ pc[p] \in {"runMutation", "updatePaymentCustomer", "listSubscriptions",
                  "handlePaymentIntentSucceeded"}
    /\ advance(p, "hooks")
    /\ UNCHANGED <<tables, now, started, ticks, calls, before>>

\* a runMutation / runQuery of processEvent rejects (the backend is
\* unavailable): nothing is written and the catch block answers 500
CallFails(p) ==
    /\ pc[p] \in {"runMutation", "updatePaymentCustomer", "listSubscriptions",
                  "handlePaymentIntentSucceeded"}
    /\ respond(p, 500)
    /\ UNCHANGED <<tables, now, started, ticks, calls, before>>

\* processEvent returned: onEvent and the custom handler of the type, if
\* configured, run and return; the try block is left with nothing sent and
\* the event is used no more
Hooks(p) ==
    /\ pc[p] = "hooks"
    /\ pc' = [pc EXCEPT ![p] = "respond"]
    /\ event' = [event EXCEPT ![p] = NoEvent]
    /\ invoice' = [invoice EXCEPT ![p] = NotFetched]
    /\ silent
    /\ UNCHANGED <<tables, now, started, ticks, calls, before>>

\* HooksThrow with the error swallowed: the request is answered 200
HooksThrowSwallowed(p) ==
    /\ pc[p] = "hooks"
    /\ respond(p, 200)
    /\ UNCHANGED <<tables, now, started, ticks, calls, before>>

\* onEvent or the custom handler throws: the catch block answers 500
HooksThrow(p) ==
    /\ pc[p] = "hooks"
    /\ respond(p, 500)
    /\ UNCHANGED <<tables, now, started, ticks, calls, before>>

\* the statement after the try block: the request is answered 200
Respond(p) ==
    /\ pc[p] = "respond"
    /\ respond(p, 200)
    /\ UNCHANGED <<tables, now, started, ticks, calls, before>>

----------------------------------------------------------------------------
(* Direct calls: every mutation of public.ts is public, so an application  *)
(* (or a test) calls it with any arguments its validator accepts, also     *)
(* ones processEvent never builds (optional arguments left out).           *)

CustomerArgs ==
    {customerArgs(o) : o \in CustomerObjects}
    \cup {[stripeCustomerId |-> "cus_A", email |-> Some("b@x.io"),
           name |-> None, metadata |-> None],
          [stripeCustomerId |-> "cus_B", email |-> Some("c@x.io"),
           name |-> Some("Cy"), metadata |-> Some(PlanBag)]}

SubscriptionCreatedArgs ==
    {subscriptionCreatedArgs(o) : o \in SubscriptionObjects}
    \cup {[stripeSubscriptionId |-> "sub_1", stripeCustomerId |-> "cus_A",
           status |-> "trialing", currentPeriodEnd |-> 3000,
           cancelAtPeriodEnd |-> FALSE, quantity |-> None,
           priceId |-> "price_1", metadata |-> None],
          [stripeSubscriptionId |-> "sub_2", stripeCustomerId |-> "cus_A",
           status |-> "active", currentPeriodEnd |-> 4000,
           cancelAtPeriodEnd |-> FALSE, quantity |-> Some(2),
           priceId |-> "price_2", metadata |-> Some(LinkBag)]}

SubscriptionUpdatedArgs ==
    {subscriptionUpdatedArgs(o) : o \in SubscriptionObjects}
    \cup {[stripeSubscriptionId |-> "sub_1", status |-> "trialing",
           currentPeriodEnd |-> 3000, cancelAtPeriodEnd |-> FALSE,
           quantity |-> None, metadata |-> None]}

SubscriptionDeletedArgs ==
    {subscriptionDeletedArgs(o) : o \in SubscriptionObjects}

SubscriptionMetadataArgs ==
    {[stripeSubscriptionId |-> "sub_1", metadata |-> LinkBag,
      orgId |-> Some("org_1"), userId |-> Some("u_1")],
     [stripeSubscriptionId |-> "sub_1", metadata |-> PlanBag,
      orgId |-> None, userId |-> None],
     [stripeSubscriptionId |-> "sub_1", metadata |-> LinkBag,
      orgId |-> None, userId |-> None],
     [stripeSubscriptionId |-> "sub_2", metadata |-> LinkBag,
      orgId |-> Some("org_1"), userId |-> Some("u_1")]}

SubscriptionQuantityArgs ==
    {[stripeSubscriptionId |-> "sub_1", quantity |-> 7]}

CheckoutSessionArgs ==
    {checkoutSessionArgs(o) : o \in CheckoutSessionObjects}

InvoiceCreatedArgs ==
    {invoiceCreatedArgs(o) : o \in InvoiceObjects}
    \cup {[stripeInvoiceId |-> "in_2", stripeCustomerId |-> "cus_A",
           stripeSubscriptionId |-> None, status |-> "open",
           amountDue |-> 900, amountPaid |-> 0, created |-> 3000]}

InvoicePaidArgs == {invoicePaidArgs(o) : o \in InvoiceObjects}

InvoicePaymentFailedArgs ==
    {invoicePaymentFailedArgs(o) : o \in InvoiceObjects}

\* a bag naming another organisation for the same user
OtherBag == {<<"orgId", "org_2">>, <<"userId", "u_1">>}

PaymentIntentArgs ==
    {paymentIntentArgs(o) : o \in PaymentIntentObjects}
    \cup {[stripePaymentIntentId |-> "pi_2", stripeCustomerId |-> Some("cus_A"),
           amount |-> 1000, currency |-> "usd", status |-> "succeeded",
           created |-> 4000, metadata |-> Some(LinkBag)],
          [stripePaymentIntentId |-> "pi_3", stripeCustomerId |-> Some("cus_B"),
           amount |-> 3000, currency |-> "usd", status |-> "succeeded",
           created |-> 5000, metadata |-> Some(OtherBag)]}

PaymentCustomerArgs ==
    {[stripePaymentIntentId |-> "pi_1", stripeCustomerId |-> c] :
        c \in {"cus_A", "cus_B"}}

\* a direct call is one more started operation
direct ==
    /\ started < MaxStarted
    /\ started' = started + 1
    /\ silent
    /\ UNCHANGED <<now, procs, ticks, calls, before>>

CallCustomerMutation ==
    /\ direct
    /\ \E args \in CustomerArgs :
          \/ customers' = createOrUpdateCustomer(customers, args, now)
          \/ customers' = handleCustomerCreated(customers, args, now)
          \/ customers' = handleCustomerUpdated(customers, args)
    /\ UNCHANGED <<subscriptions, payments, checkout_sessions, invoices>>

CallSubscriptionMutation ==
    /\ direct
    /\ \/ \E args \in SubscriptionCreatedArgs :
             subscriptions' =
                 handleSubscriptionCreated(subscriptions, args, now)
       \/ \E args \in SubscriptionUpdatedArgs :
             subscriptions' = handleSubscriptionUpdated(subscriptions, args)
       \/ \E args \in SubscriptionDeletedArgs :
             subscriptions' = handleSubscriptionDeleted(subscriptions, args)
       \/ \E args \in SubscriptionMetadataArgs :
             subscriptions' = updateSubscriptionMetadata(subscriptions, args)
       \/ \E args \in SubscriptionQuantityArgs :
             subscriptions' =
                 updateSubscriptionQuantityInternal(subscriptions, args)
    /\ UNCHANGED <<customers, payments, checkout_sessions, invoices>>

CallCheckoutSessionMutation ==
    /\ direct
    /\ \E args \in CheckoutSessionArgs :
          checkout_sessions' =
              handleCheckoutSessionCompleted(checkout_sessions, args, now)
    /\ UNCHANGED <<customers, subscriptions, payments, invoices>>

CallInvoiceMutation ==
    /\ direct
    /\ \/ \E args \in InvoiceCreatedArgs :
             invoices' = handleInvoiceCreated(invoices, args, now)
       \/ \E args \in InvoicePaidArgs :
             invoices' = handleInvoicePaid(invoices, args)
       \/ \E args \in InvoicePaymentFailedArgs :
             invoices' = handleInvoicePaymentFailed(invoices, args)
    /\ UNCHANGED <<customers, subscriptions, payments, checkout_sessions>>

CallPaymentMutation ==
    /\ direct
    /\ \/ \E args \in PaymentIntentArgs :
             payments' = handlePaymentIntentSucceeded(payments, args, now)
       \/ \E args \in PaymentCustomerArgs :
             payments' = updatePaymentCustomer(payments, args)
    /\ UNCHANGED <<customers, subscriptions, checkout_sessions, invoices>>

----------------------------------------------------------------------------
(* The action updateSubscriptionQuantity: each awaited call is a step *)

\* the call ends: null is returned or the error is thrown to the caller
finish(a, result) ==
    /\ call' = [call EXCEPT ![a] = NoCall]
    /\ returned' = result
    /\ succeeded' = IF result = "null" THEN succeeded + 1 ELSE succeeded

\* the call moves on to its next awaited call
proceed(a, next) ==
    /\ call' = [call EXCEPT ![a].pc = next]
    /\ returned' = "none"
    /\ UNCHANGED succeeded

\* the action is called; without STRIPE_SECRET_KEY it throws at once
updateSubscriptionQuantity(a) ==
    /\ call[a].pc = "idle"
    /\ called < MaxCalls
    /\ called' = called + 1
    /\ \E args \in QuantityArgs, apiKey \in BOOLEAN :
          IF ~apiKey
          THEN finish(a, "error")
          ELSE /\ call' = [call EXCEPT ![a] = [pc |-> "retrieve",
                                               args |-> args]]
               /\ returned' = "none"
               /\ UNCHANGED succeeded
    /\ silent
    /\ UNCHANGED <<tables, now, procs, started, ticks, before, remoteQuantity>>

\* stripe.subscriptions.retrieve returns; a subscription without items
\* makes the action throw
RetrieveSubscription(a) ==
    /\ call[a].pc = "retrieve"
    /\ IF remoteQuantity[call[a].args.stripeSubscriptionId] = None
       THEN finish(a, "error")
       ELSE proceed(a, "subscriptionItems.update")
    /\ silent
    /\ UNCHANGED <<tables, now, procs, started, ticks, before, remoteQuantity, called>>

\* stripe.subscriptions.retrieve rejects
RetrieveSubscriptionFails(a) ==
    /\ call[a].pc = "retrieve"
    /\ finish(a, "error")
    /\ silent
    /\ UNCHANGED <<tables, now, procs, started, ticks, before, remoteQuantity, called>>

\* stripe.subscriptionItems.update sets the quantity of the item
UpdateSubscriptionItem(a) ==
    /\ call[a].pc = "subscriptionItems.update"
    /\ remoteQuantity' = [remoteQuantity EXCEPT ![call[a].args.stripeSubscriptionId] =
                                   Some(call[a].args.quantity)]
    /\ proceed(a, "runMutation")
    /\ silent
    /\ UNCHANGED <<tables, now, procs, started, ticks, before, called>>

\* UpdateSubscriptionItemFails with the error ignored: the action goes on
\* to the local patch
UpdateSubscriptionItemFailsIgnored(a) ==
    /\ call[a].pc = "subscriptionItems.update"
    /\ proceed(a, "runMutation")
    /\ silent
    /\ UNCHANGED <<tables, now, procs, started, ticks, before, remoteQuantity, called>>

\* stripe.subscriptionItems.update rejects
UpdateSubscriptionItemFails(a) ==
    /\ call[a].pc = "subscriptionItems.update"
    /\ finish(a, "error")
    /\ silent
    /\ UNCHANGED <<tables, now, procs, started, ticks, before, remoteQuantity, called>>

\* runMutation(updateSubscriptionQuantityInternal), then return null
PatchLocalQuantity(a) ==
    /\ call[a].pc = "runMutation"
    /\ IF uniqueThrows(subscriptions, "stripeSubscriptionId",
                       call[a].args.stripeSubscriptionId)
       THEN finish(a, "error") /\ UNCHANGED subscriptions
       ELSE /\ subscriptions' =
                  updateSubscriptionQuantityInternal(subscriptions,
                                                     call[a].args)
            /\ finish(a, "null")
    /\ silent
    /\ UNCHANGED <<customers, payments, checkout_sessions, invoices, now,
                   procs, started, ticks, before, remoteQuantity, called>>

\* the runMutation rejects (the backend is unavailable)
PatchLocalQuantityFails(a) ==
    /\ call[a].pc = "runMutation"
    /\ finish(a, "error")
    /\ silent
    /\ UNCHANGED <<tables, now, procs, started, ticks, before, remoteQuantity, called>>

----------------------------------------------------------------------------

Next ==
    \/ Tick
    \/ \E p \in Procs :
          \/ Receive(p)
          \/ CustomerEvent(p)
          \/ SubscriptionCreatedEvent(p)
          \/ SubscriptionUpdatedEvent(p)
          \/ SubscriptionDeletedEvent(p)
          \/ CheckoutSessionCompletedEvent(p)
          \/ LinkPaymentCustomer(p)
          \/ InvoiceCreatedEvent(p)
          \/ InvoicePaidEvent(p)
          \/ InvoicePaymentFailedEvent(p)
          \/ RetrieveInvoice(p)
          \/ RetrieveInvoiceFails(p)
          \/ ListSubscriptions(p)
          \/ PaymentIntentSucceededEvent(p)
          \/ CallFails(p)
          \/ Hooks(p)
          \/ HooksThrow(p)
          \/ Respond(p)
    \/ CallCustomerMutation
    \/ CallSubscriptionMutation
    \/ CallCheckoutSessionMutation
    \/ CallInvoiceMutation
    \/ CallPaymentMutation

Spec == Init /\ [][Next]_vars

\* The mutations alone, called in any order with any arguments: the states
\* of the five tables every caller of the component can produce.
NextMutations ==
    \/ Tick
    \/ CallCustomerMutation
    \/ CallSubscriptionMutation
    \/ CallCheckoutSessionMutation
    \/ CallInvoiceMutation
    \/ CallPaymentMutation

SpecMutations == Init /\ [][NextMutations]_vars

\* The payment flow: the webhook route fed with the events that decide
\* whether and how a one-time payment is recorded, and the direct calls on
\* payments.
NextPayments ==
    \/ Tick
    \/ \E p \in Procs :
          \/ ReceivePaymentFlow(p)
          \/ SubscriptionCreatedEvent(p)
          \/ CheckoutSessionCompletedEvent(p)
          \/ LinkPaymentCustomer(p)
          \/ RetrieveInvoice(p)
          \/ RetrieveInvoiceFails(p)
          \/ ListSubscriptions(p)
          \/ PaymentIntentSucceededEvent(p)
          \/ CallFails(p)
          \/ Hooks(p)
          \/ HooksThrow(p)
          \/ Respond(p)
    \/ CallPaymentMutation

SpecPayments == Init /\ [][NextPayments]_vars

\* The action updateSubscriptionQuantity, called while the subscription
\* mutations run in any order.
NextQuantity ==
    \/ \E a \in Callers :
          \/ updateSubscriptionQuantity(a)
          \/ RetrieveSubscription(a)
          \/ RetrieveSubscriptionFails(a)
          \/ UpdateSubscriptionItem(a)
          \/ UpdateSubscriptionItemFails(a)
          \/ PatchLocalQuantity(a)
          \/ PatchLocalQuantityFails(a)
    \/ CallSubscriptionMutation

SpecQuantity == Init /\ [][NextQuantity]_vars

\* The subscription sub_1 exists at the remote service with quantity 5 and
\* its creation notification has been processed: the state
\* handleSubscriptionCreated leaves from the empty store.
InitSynced ==
    /\ customers = <<>>
    /\ subscriptions =
          handleSubscriptionCreated(
              <<>>,
              [stripeSubscriptionId |-> "sub_1", stripeCustomerId |-> "cus_A",
               status |-> "active", currentPeriodEnd |-> 1000,
               cancelAtPeriodEnd |-> FALSE, quantity |-> Some(5),
               priceId |-> "price_1", metadata |-> Some(LinkBag)],
              StartMs)
    /\ payments = <<>>
    /\ checkout_sessions = <<>>
    /\ invoices = <<>>
    /\ now = StartMs
    /\ pc = [p \in Procs |-> "idle"]
    /\ event = [p \in Procs |-> NoEvent]
    /\ invoice = [p \in Procs |-> NotFetched]
    /\ response = 0
    /\ body = ""
    /\ started = 0
    /\ ticks = 0
    /\ call = [a \in Callers |-> NoCall]
    /\ remoteQuantity = [RemoteStart EXCEPT !["sub_1"] = Some(5)]
    /\ returned = "none"
    /\ called = 0
    /\ succeeded = 0
    /\ before = [p \in Procs |-> NoSnapshot]

\* Calls of updateSubscriptionQuantity alone, on the synced subscription:
\* nothing else writes the store or the remote service.
NextCalls ==
    \E a \in Callers :
       \/ updateSubscriptionQuantity(a)
       \/ RetrieveSubscription(a)
       \/ RetrieveSubscriptionFails(a)
       \/ UpdateSubscriptionItem(a)
       \/ UpdateSubscriptionItemFails(a)
       \/ PatchLocalQuantity(a)
       \/ PatchLocalQuantityFails(a)

SpecCalls == InitSynced /\ [][NextCalls]_vars

\* The checkout flow: the webhook route fed with checkout.session.completed
\* events of every shape, and the direct calls on payments and checkout
\* sessions.
NextCheckout ==
    \/ \E p \in Procs :
          \/ ReceiveCheckout(p)
          \/ CheckoutSessionCompletedEvent(p)
          \/ LinkPaymentCustomer(p)
          \/ CallFails(p)
          \/ Hooks(p)
          \/ HooksThrow(p)
          \/ Respond(p)
    \/ CallCheckoutSessionMutation
    \/ CallPaymentMutation

SpecCheckout == Init /\ [][NextCheckout]_vars

----------------------------------------------------------------------------
(* Vocabulary of the properties *)

\* request p takes the step (every step of a verified request moves its pc)
stepOf(p) == pc'[p] # pc[p]

\* rows of a table under a natural key
rowsOf(table, field, key) == Cardinality(withIndex(table, field, key))

\* every row's natural key is held by that row alone
keyed(table, field) ==
    \A i \in 1..Len(table) : rowsOf(table, field, table[i][field]) = 1

\* ten minutes, in the unit of _creationTime
WindowMs == WindowSec * MsPerSec

\* a subscription of the customer was created less than ten minutes ago
createdWithinWindow(customer) ==
    \E i \in 1..Len(subscriptions) :
        /\ subscriptions[i].stripeCustomerId = customer
        /\ now - subscriptions[i]._creationTime < WindowMs

\* the customer has subscriptions, all created more than ten minutes ago
createdBeforeWindow(customer) ==
    /\ \E i \in 1..Len(subscriptions) :
          subscriptions[i].stripeCustomerId = customer
    /\ \A i \in 1..Len(subscriptions) :
          subscriptions[i].stripeCustomerId = customer
             => now - subscriptions[i]._creationTime > WindowMs

isPaymentIntent(p) == event[p].type = "payment_intent.succeeded"

----------------------------------------------------------------------------
(* C1: in every reachable state each of the five tables holds at most one  *)
(* row per natural key, whatever webhook requests and direct calls ran and *)
(* however the requests interleaved.                                       *)
C1_OneRowPerNaturalKey ==
    /\ keyed(customers, "stripeCustomerId")
    /\ keyed(subscriptions, "stripeSubscriptionId")
    /\ keyed(payments, "stripePaymentIntentId")
    /\ keyed(checkout_sessions, "stripeCheckoutSessionId")
    /\ keyed(invoices, "stripeInvoiceId")

\* two requests carrying the same creation event have both run their
\* mutation, and one row is there
C1_Witness ==
    /\ pc["w1"] = "hooks" /\ pc["w2"] = "hooks"
    /\ event["w1"] = event["w2"]
    /\ event["w1"].type = "customer.subscription.created"
    /\ Len(subscriptions) = 1

(* C2: a Payment's stripeCustomerId, once set, keeps its value in every    *)
(* later state.                                                            *)
C2_CustomerWriteOnce ==
    [][\A i \in 1..Len(payments) :
          payments[i].stripeCustomerId # None
             => /\ i <= Len(payments')
                /\ payments'[i].stripeCustomerId = payments[i].stripeCustomerId
      ]_vars

\* a checkout session of cus_B, created after the payment of cus_A, has run
\* its updatePaymentCustomer on that payment, which still names cus_A
C2_Witness ==
    \E p \in Procs :
        /\ pc[p] = "hooks"
        /\ event[p].type = "checkout.session.completed"
        /\ linksPayment(event[p].object)
        /\ event[p].object.customer = Some("cus_B")
        /\ Len(payments) = 1 /\ Len(checkout_sessions) = 1
        /\ payments[1]._creationTime < checkout_sessions[1]._creationTime
        /\ payments[1].amount = 4999
        /\ payments[1].stripeCustomerId = Some("cus_A")

(* C3: a payment_intent.succeeded request whose invoice was fetched and    *)
(* names a subscription never changes the payments table.                  *)
C3_SubscriptionInvoiceSkipsPayment ==
    [][\A p \in Procs :
          (stepOf(p) /\ (\/ invoice[p].subscription # None
                         \/ invoice'[p].subscription # None))
             => /\ payments' = payments
                /\ pc'[p] \in {"hooks", "respond", "idle"}
      ]_vars

\* such a request is past processEvent and payments is empty
C3_Witness ==
    \E p \in Procs :
        /\ pc[p] = "hooks"
        /\ isPaymentIntent(p)
        /\ invoice[p].result = "ok" /\ invoice[p].subscription # None
        /\ payments = <<>>
        /\ started = 1

(* C4: when the recency check of a payment_intent.succeeded request runs   *)
(* and a subscription of the customer was created less than ten minutes    *)
(* before, the request does not go on to the Payment upsert and payments   *)
(* is unchanged.                                                           *)
C4_RecentSubscriptionSkipsPayment ==
    [][\A p \in Procs :
          (/\ pc[p] = "listSubscriptions"
           /\ stepOf(p)
           /\ createdWithinWindow(The(event[p].object.customer)))
             => /\ pc'[p] \in {"hooks", "idle"}
                /\ payments' = payments
      ]_vars

\* the request was skipped by the check on a subscription two minutes old
C4_Witness ==
    \E p \in Procs :
        /\ pc[p] = "hooks"
        /\ isPaymentIntent(p)
        /\ invoice[p].subscription = None
        /\ event[p].object.customer # None
        /\ Len(subscriptions) = 1
        /\ subscriptions[1].stripeCustomerId = The(event[p].object.customer)
        /\ now - subscriptions[1]._creationTime = TwoMinutes
        /\ payments = <<>>

(* C5 (as claimed): when the recency check runs and every subscription of  *)
(* the customer was created more than ten minutes before, the request      *)
(* goes on to the Payment upsert.                                          *)
C5_OldSubscriptionRecordsPayment ==
    [][\A p \in Procs :
          (/\ pc[p] = "listSubscriptions"
           /\ stepOf(p)
           /\ pc'[p] # "idle"
           /\ createdBeforeWindow(The(event[p].object.customer)))
             => pc'[p] = "handlePaymentIntentSucceeded"
      ]_vars

(* C6 (as claimed): when subscription.created(c) and a                     *)
(* payment_intent.succeeded(c) without invoice link are the two operations *)
(* that ran, and both are past processEvent, no Payment row exists.        *)
C6_NoPaymentForSubscriptionCapture ==
    \A p, q \in Procs :
        (/\ started = 2
         /\ pc[p] = "hooks" /\ pc[q] = "hooks"
         /\ event[p].type = "customer.subscription.created"
         /\ isPaymentIntent(q)
         /\ event[q].object.invoice = None
         /\ event[q].object.customer = Some(event[p].object.customer))
            => rowsOf(payments, "stripePaymentIntentId",
                      event[q].object.id) = 0

(* C7: the step in which stripe.invoices.retrieve is awaited never answers *)
(* the request; when the retrieve fails the request goes on to the recency *)
(* check (or, without customer, to the Payment upsert) and nothing is      *)
(* written.                                                                *)
C7_FetchFailureFallsThrough ==
    [][\A p \in Procs :
          (pc[p] = "retrieveInvoice" /\ stepOf(p))
             => /\ pc'[p] # "idle"
                /\ response' = 0
                /\ invoice'[p] = FetchError
                      => /\ pc'[p] = afterInvoiceCheck(event[p].object)
                         /\ UNCHANGED tables
      ]_vars

\* the only request there is failed to fetch its invoice, has upserted the
\* Payment and is past processEvent
C7_Witness ==
    \E p \in Procs :
        /\ started = 1
        /\ pc[p] = "hooks"
        /\ invoice[p] = FetchError
        /\ Len(payments) = 1
        /\ payments[1].stripePaymentIntentId = event[p].object.id

(* C8 (as claimed): when neither check fires (the fetched invoice names no *)
(* subscription; no subscription of the customer was created within ten    *)
(* minutes) the request goes on to the upsert, and the upsert of an unseen *)
(* payment intent appends exactly one row with the event's fields.         *)
C8_StandalonePaymentInserted ==
    [][\A p \in Procs :
          (stepOf(p) /\ pc'[p] # "idle" /\ isPaymentIntent(p))
             => /\ (/\ pc[p] = "retrieveInvoice"
                    /\ invoice'[p].result = "ok"
                    /\ invoice'[p].subscription = None)
                      => pc'[p] = afterInvoiceCheck(event[p].object)
                /\ (/\ pc[p] = "listSubscriptions"
                    /\ ~createdWithinWindow(The(event[p].object.customer)))
                      => pc'[p] = "handlePaymentIntentSucceeded"
                /\ (/\ pc[p] = "handlePaymentIntentSucceeded"
                    /\ rowsOf(payments, "stripePaymentIntentId",
                              event[p].object.id) = 0)
                      => /\ Len(payments') = Len(payments) + 1
                         /\ SubSeq(payments', 1, Len(payments)) = payments
                         /\ LET row == payments'[Len(payments')]
                                o == event[p].object
                            IN /\ row.stripePaymentIntentId = o.id
                               /\ row.amount = o.amount
                               /\ row.currency = o.currency
                               /\ row.status = o.status
                               /\ row.created = o.created
                               /\ row.metadata =
                                     Some(OrElse(o.metadata, EmptyBag))
      ]_vars

----------------------------------------------------------------------------
(* Replays.  A handler is applied to the table of the current state and    *)
(* applied again, two minutes later, to what the first application left.   *)

later == now + TwoMinutes

\* `once` is the table after the first application, `twice` after the
\* second: the replay changes nothing and the key has one row, appended by
\* the first application if the key was new
createdOnce(table, once, twice, field, key) ==
    /\ twice = once
    /\ rowsOf(once, field, key) = 1
    /\ rowsOf(table, field, key) = 0
          => /\ Len(once) = Len(table) + 1
             /\ SubSeq(once, 1, Len(table)) = table
             /\ once[Len(once)][field] = key

(* C9: applying the same creation notification twice leaves exactly one    *)
(* row for its natural key, the row the first application left; the second *)
(* application changes nothing.                                            *)
C9_IdempotentCreation ==
    /\ \A a \in CustomerArgs :
          LET once == handleCustomerCreated(customers, a, now)
          IN createdOnce(customers, once,
                         handleCustomerCreated(once, a, later),
                         "stripeCustomerId", a.stripeCustomerId)
    /\ \A a \in SubscriptionCreatedArgs :
          LET once == handleSubscriptionCreated(subscriptions, a, now)
          IN createdOnce(subscriptions, once,
                         handleSubscriptionCreated(once, a, later),
                         "stripeSubscriptionId", a.stripeSubscriptionId)
    /\ \A a \in InvoiceCreatedArgs :
          LET once == handleInvoiceCreated(invoices, a, now)
          IN createdOnce(invoices, once,
                         handleInvoiceCreated(once, a, later),
                         "stripeInvoiceId", a.stripeInvoiceId)
    /\ \A a \in PaymentIntentArgs :
          LET once == handlePaymentIntentSucceeded(payments, a, now)
          IN createdOnce(payments, once,
                         handlePaymentIntentSucceeded(once, a, later),
                         "stripePaymentIntentId", a.stripePaymentIntentId)
    /\ \A a \in CheckoutSessionArgs :
          LET once == handleCheckoutSessionCompleted(checkout_sessions, a, now)
          IN createdOnce(checkout_sessions, once,
                         handleCheckoutSessionCompleted(once, a, later),
                         "stripeCheckoutSessionId",
                         a.stripeCheckoutSessionId)

\* the invoice row is as a creation notification wrote it at the start, and
\* at the later time of this state the same notification changes nothing
C9_Witness ==
    /\ now > StartMs
    /\ \E a \in InvoiceCreatedArgs :
          /\ invoices = handleInvoiceCreated(<<>>, a, StartMs)
          /\ handleInvoiceCreated(invoices, a, now) = invoices

(* C10: for every webhook mutation handler, every argument and every       *)
(* reachable state of its table, applying the handler twice in a row       *)
(* leaves the table that applying it once leaves.                          *)
C10_ReplaySafe ==
    /\ \A a \in CustomerArgs :
          /\ LET once == handleCustomerCreated(customers, a, now)
             IN handleCustomerCreated(once, a, later) = once
          /\ LET once == handleCustomerUpdated(customers, a)
             IN handleCustomerUpdated(once, a) = once
    /\ \A a \in SubscriptionCreatedArgs :
          LET once == handleSubscriptionCreated(subscriptions, a, now)
          IN handleSubscriptionCreated(once, a, later) = once
    /\ \A a \in SubscriptionUpdatedArgs :
          LET once == handleSubscriptionUpdated(subscriptions, a)
          IN handleSubscriptionUpdated(once, a) = once
    /\ \A a \in SubscriptionDeletedArgs :
          LET once == handleSubscriptionDeleted(subscriptions, a)
          IN handleSubscriptionDeleted(once, a) = once
    /\ \A a \in CheckoutSessionArgs :
          LET once == handleCheckoutSessionCompleted(checkout_sessions, a, now)
          IN handleCheckoutSessionCompleted(once, a, later) = once
    /\ \A a \in InvoiceCreatedArgs :
          LET once == handleInvoiceCreated(invoices, a, now)
          IN handleInvoiceCreated(once, a, later) = once
    /\ \A a \in InvoicePaidArgs :
          LET once == handleInvoicePaid(invoices, a)
          IN handleInvoicePaid(once, a) = once
    /\ \A a \in InvoicePaymentFailedArgs :
          LET once == handleInvoicePaymentFailed(invoices, a)
          IN handleInvoicePaymentFailed(once, a) = once
    /\ \A a \in PaymentIntentArgs :
          LET once == handlePaymentIntentSucceeded(payments, a, now)
          IN handlePaymentIntentSucceeded(once, a, later) = once
    /\ \A a \in PaymentCustomerArgs :
          LET once == updatePaymentCustomer(payments, a)
          IN updatePaymentCustomer(once, a) = once

\* an invoice created unpaid has been paid with an amount that a replay of
\* the same handleInvoicePaid would write again
C10_Witness ==
    /\ Len(invoices) = 1
    /\ invoices[1].status = "paid"
    /\ invoices[1].amountDue = 500
    /\ invoices[1].amountPaid = 700
    /\ \E a \in InvoicePaidArgs :
          /\ a.amountPaid = 700
          /\ handleInvoicePaid(invoices, a) = invoices

----------------------------------------------------------------------------
(* Patches.  A patching mutation is applied to the table of the current    *)
(* state; `kept` compares a field of every row before and after.           *)

kept(table, after, field) ==
    /\ Len(after) = Len(table)
    /\ \A i \in 1..Len(table) : after[i][field] = table[i][field]

\* the table holds the row the arguments name
present(table, field, key) == rowsOf(table, field, key) > 0

(* C11: handleSubscriptionUpdated applied to an existing subscription      *)
(* without a metadata argument leaves the row's metadata, orgId and userId *)
(* as they were.                                                           *)
C11_MetadataKeptWithoutArgument ==
    \A a \in SubscriptionUpdatedArgs :
        a.metadata = None
           => LET after == handleSubscriptionUpdated(subscriptions, a)
              IN /\ kept(subscriptions, after, "metadata")
                 /\ kept(subscriptions, after, "orgId")
                 /\ kept(subscriptions, after, "userId")

\* a subscription created with orgId and userId in its metadata has been
\* updated, to another status, by a call that gave no metadata
C11_Witness ==
    \E a \in SubscriptionCreatedArgs, u \in SubscriptionUpdatedArgs :
        /\ a.metadata = Some(LinkBag)
        /\ u.metadata = None
        /\ u.status # a.status
        /\ subscriptions =
              handleSubscriptionUpdated(
                  handleSubscriptionCreated(<<>>, a, StartMs), u)
        /\ subscriptions[1].status = u.status
        /\ subscriptions[1].orgId = Some("org_1")
        /\ subscriptions[1].metadata = Some(LinkBag)

(* C12: a patching operation applied to an existing row with an optional   *)
(* field omitted leaves that field of the stored row at its previous       *)
(* value: quantity for handleSubscriptionUpdated; email, name and metadata *)
(* for handleCustomerUpdated and createOrUpdateCustomer; stripeCustomerId  *)
(* for handleCheckoutSessionCompleted.                                     *)
C12_OmittedFieldKept ==
    /\ \A a \in SubscriptionUpdatedArgs :
          a.quantity = None
             => kept(subscriptions,
                     handleSubscriptionUpdated(subscriptions, a), "quantity")
    /\ \A a \in CustomerArgs :
          \A f \in {"email", "name", "metadata"} :
              (a[f] = None
                 /\ present(customers, "stripeCustomerId", a.stripeCustomerId))
                 => /\ kept(customers, handleCustomerUpdated(customers, a), f)
                    /\ kept(customers,
                            createOrUpdateCustomer(customers, a, now), f)
    /\ \A a \in CheckoutSessionArgs :
          (a.stripeCustomerId = None
             /\ present(checkout_sessions, "stripeCheckoutSessionId",
                        a.stripeCheckoutSessionId))
             => kept(checkout_sessions,
                     handleCheckoutSessionCompleted(checkout_sessions, a, now),
                     "stripeCustomerId")

----------------------------------------------------------------------------
(* Customer backfill *)

\* the table holds the payment intent's row and the row has no customer id
unlinked(table, id) ==
    \E i \in 1..Len(table) :
        /\ table[i].stripePaymentIntentId = id
        /\ table[i].stripeCustomerId = None

\* the table holds the payment intent's row with that (optional) customer id
linkedTo(table, id, customer) ==
    \E i \in 1..Len(table) :
        /\ table[i].stripePaymentIntentId = id
        /\ table[i].stripeCustomerId = customer

isCheckout(p) == event[p].type = "checkout.session.completed"

(* C13 (as amended): when a Payment row for p exists without customer id,  *)
(* the updatePaymentCustomer call of a checkout.session.completed (mode    *)
(* "payment", customer c, payment_intent p), and the Payment upsert of a   *)
(* repeated payment_intent.succeeded for p carrying c that the classifier  *)
(* lets through, leave the row for p with stripeCustomerId = c.            *)
C13_BackfillByLinkOrUpsert ==
    [][\A p \in Procs :
          (stepOf(p) /\ pc'[p] = "hooks")
             => /\ (/\ pc[p] = "updatePaymentCustomer"
                    /\ unlinked(payments,
                                The(event[p].object.payment_intent)))
                      => linkedTo(payments',
                                  The(event[p].object.payment_intent),
                                  event[p].object.customer)
                /\ (/\ pc[p] = "handlePaymentIntentSucceeded"
                    /\ event[p].object.customer # None
                    /\ unlinked(payments, event[p].object.id))
                      => linkedTo(payments', event[p].object.id,
                                  event[p].object.customer)
      ]_vars

\* a payment intent without customer and then a checkout session naming it
\* are the two operations that ran; the row inserted without customer now
\* carries the session's customer
C13_Witness ==
    \E p \in Procs :
        /\ started = 2
        /\ pc[p] = "hooks"
        /\ isCheckout(p)
        /\ linksPayment(event[p].object)
        /\ Len(payments) = 1
        /\ payments[1].amount = 1999
        /\ payments[1].stripePaymentIntentId =
              The(event[p].object.payment_intent)
        /\ payments[1].stripeCustomerId = event[p].object.customer

(* C13 (as claimed): when a Payment row for p exists without customer id,  *)
(* processEvent of a payment_intent.succeeded for p carrying customer c    *)
(* ends with the row for p carrying c.  Stated for the events without      *)
(* invoice whose customer has a subscription created inside the ten        *)
(* minutes, which the recency check is meant to skip.                      *)
C13_BackfillByEveryRepeat ==
    [][\A p \in Procs :
          (/\ stepOf(p) /\ pc'[p] = "hooks"
           /\ isPaymentIntent(p)
           /\ event[p].object.invoice = None
           /\ event[p].object.customer # None
           /\ createdWithinWindow(The(event[p].object.customer))
           /\ unlinked(payments, event[p].object.id))
             => linkedTo(payments', event[p].object.id,
                         event[p].object.customer)
      ]_vars

(* C14 (as claimed): when payment_intent.succeeded(p, no customer, no      *)
(* invoice) and checkout.session.completed(mode payment, customer c,       *)
(* payment_intent p) are the two operations that ran and both are past     *)
(* processEvent, the Payment row for p carries c.                          *)
C14_BackfillInEitherOrder ==
    \A p, q \in Procs :
        (/\ started = 2
         /\ pc[p] = "hooks" /\ pc[q] = "hooks"
         /\ isPaymentIntent(p)
         /\ event[p].object.invoice = None
         /\ event[p].object.customer = None
         /\ isCheckout(q)
         /\ linksPayment(event[q].object)
         /\ event[q].object.payment_intent = Some(event[p].object.id))
            => linkedTo(payments, event[p].object.id,
                        event[q].object.customer)

----------------------------------------------------------------------------
(* Queries of src/component/public.ts.  A query that returns one document  *)
(* returns an optional row (None for null); a list query returns the set   *)
(* of its rows.                                                            *)

\* .first(): the earliest matching document of the index, None for null
first(table, field, value) ==
    LET found == withIndex(table, field, value)
    IN IF found = {} THEN None
       ELSE Some(table[CHOOSE i \in found : \A j \in found : i <= j])

getSubscription(table, stripeSubscriptionId) ==
    {table[i] : i \in unique(table, "stripeSubscriptionId",
                             stripeSubscriptionId)}

getSubscriptionByOrgId(table, orgId) == first(table, "orgId", Some(orgId))

listSubscriptionsByUserId(table, userId) ==
    collect(table, "userId", Some(userId))

listPaymentsByUserId(table, userId) == collect(table, "userId", Some(userId))

listPaymentsByOrgId(table, orgId) == collect(table, "orgId", Some(orgId))

----------------------------------------------------------------------------
(* Metadata projection *)

\* the row an insert appended
inserted(after) == after[Len(after)]

\* the row carries the bag whole and, as fields, the bag's orgId and userId
projects(row, bag) ==
    /\ row.metadata = Some(bag)
    /\ row.orgId = MetaGet(bag, "orgId")
    /\ row.userId = MetaGet(bag, "userId")

(* C15 (as amended): when handleSubscriptionCreated or                     *)
(* handlePaymentIntentSucceeded inserts a row, the row's orgId and userId  *)
(* are the values under those keys of the metadata, the stored metadata is *)
(* the whole bag, the row is in the result of the list queries by userId   *)
(* and by orgId, and getSubscriptionByOrgId returns it when no earlier     *)
(* subscription has the same orgId.                                        *)
C15_ProjectionOnInsert ==
    /\ \A a \in SubscriptionCreatedArgs :
          ~present(subscriptions, "stripeSubscriptionId",
                   a.stripeSubscriptionId)
             => LET after == handleSubscriptionCreated(subscriptions, a, now)
                    row == inserted(after)
                IN /\ Len(after) = Len(subscriptions) + 1
                   /\ projects(row, OrElse(a.metadata, EmptyBag))
                   /\ \A u \in row.userId :
                         row \in listSubscriptionsByUserId(after, u)
                   /\ \A o \in row.orgId :
                         IF getSubscriptionByOrgId(subscriptions, o) = None
                         THEN getSubscriptionByOrgId(after, o) = Some(row)
                         ELSE getSubscriptionByOrgId(after, o) =
                                 getSubscriptionByOrgId(subscriptions, o)
    /\ \A a \in PaymentIntentArgs :
          ~present(payments, "stripePaymentIntentId", a.stripePaymentIntentId)
             => LET after == handlePaymentIntentSucceeded(payments, a, now)
                    row == inserted(after)
                IN /\ Len(after) = Len(payments) + 1
                   /\ projects(row, OrElse(a.metadata, EmptyBag))
                   /\ \A u \in row.userId :
                         row \in listPaymentsByUserId(after, u)
                   /\ \A o \in row.orgId :
                         row \in listPaymentsByOrgId(after, o)

\* a subscription and a payment were inserted from the bag that names
\* org_1 and u_1, and the queries by those values return them
C15_Witness ==
    /\ Len(subscriptions) = 1 /\ Len(payments) = 1
    /\ projects(subscriptions[1], LinkBag)
    /\ projects(payments[1], LinkBag)
    /\ getSubscriptionByOrgId(subscriptions, "org_1") = Some(subscriptions[1])
    /\ subscriptions[1] \in listSubscriptionsByUserId(subscriptions, "u_1")
    /\ payments[1] \in listPaymentsByOrgId(payments, "org_1")
    /\ payments[1] \in listPaymentsByUserId(payments, "u_1")

(* C15 (as claimed): a subscription inserted from metadata containing      *)
(* orgId is what the query by orgId returns.                               *)
C15_InsertedReturnedByOrgId ==
    \A a \in SubscriptionCreatedArgs :
        ~present(subscriptions, "stripeSubscriptionId",
                 a.stripeSubscriptionId)
           => LET after == handleSubscriptionCreated(subscriptions, a, now)
              IN \A o \in MetaGet(OrElse(a.metadata, EmptyBag), "orgId") :
                    getSubscriptionByOrgId(after, o) = Some(inserted(after))

(* C16 (as claimed): after updateSubscriptionMetadata is applied to an     *)
(* existing subscription with a bag containing orgId and/or userId, the    *)
(* row's orgId and userId fields hold those values and the row is in the   *)
(* result of listSubscriptionsByUserId for the bag's userId.               *)
C16_ProjectionOnMetadataUpdate ==
    \A a \in SubscriptionMetadataArgs :
        LET after == updateSubscriptionMetadata(subscriptions, a)
        IN \A i \in unique(subscriptions, "stripeSubscriptionId",
                           a.stripeSubscriptionId) :
              /\ \A o \in MetaGet(a.metadata, "orgId") :
                    after[i].orgId = Some(o)
              /\ \A u \in MetaGet(a.metadata, "userId") :
                    /\ after[i].userId = Some(u)
                    /\ after[i] \in listSubscriptionsByUserId(after, u)

----------------------------------------------------------------------------
(* Deletion and retention *)

(* C17: handleSubscriptionDeleted applied to an existing subscription sets *)
(* its status to "canceled" and changes nothing else: getSubscription      *)
(* still returns the row for its key, and every other field and every      *)
(* other row is as before.                                                 *)
C17_DeletionKeepsRow ==
    \A a \in SubscriptionDeletedArgs :
        LET after == handleSubscriptionDeleted(subscriptions, a)
        IN /\ Len(after) = Len(subscriptions)
           /\ \A i \in 1..Len(subscriptions) :
                 after[i] =
                    IF subscriptions[i].stripeSubscriptionId =
                          a.stripeSubscriptionId
                    THEN [subscriptions[i] EXCEPT !.status = "canceled"]
                    ELSE subscriptions[i]
           /\ \A i \in 1..Len(subscriptions) :
                 subscriptions[i].stripeSubscriptionId =
                    a.stripeSubscriptionId
                    => getSubscription(after, a.stripeSubscriptionId) =
                          {[subscriptions[i] EXCEPT !.status = "canceled"]}

\* a subscription created by the webhook arguments of the second Stripe
\* object (past due, period ending) has been deleted: it is canceled, still
\* found by its key, and its other fields are the created ones
C17_Witness ==
    \E a \in SubscriptionCreatedArgs :
        /\ a.status = "past_due"
        /\ subscriptions =
              handleSubscriptionDeleted(
                  handleSubscriptionCreated(<<>>, a, StartMs),
                  [stripeSubscriptionId |-> a.stripeSubscriptionId])
        /\ subscriptions[1].status = "canceled"
        /\ subscriptions[1].quantity = a.quantity
        /\ getSubscription(subscriptions, a.stripeSubscriptionId) =
              {subscriptions[1]}

(* C18 (as claimed): a subscription whose status is "canceled" (no event   *)
(* of the model carries that status, only a deletion sets it) still has    *)
(* status "canceled" after a webhook request has processed a               *)
(* customer.subscription.updated notification.                             *)
C18_CanceledIsTerminal ==
    [][\A p \in Procs :
          (stepOf(p) /\ event[p].type = "customer.subscription.updated")
             => \A i \in 1..Len(subscriptions) :
                   subscriptions[i].status = "canceled"
                      => /\ i <= Len(subscriptions')
                         /\ subscriptions'[i].status = "canceled"
      ]_vars

\* the natural keys a table holds
keysOf(table, field) == {table[i][field] : i \in 1..Len(table)}

(* C19: no step removes a row: in every table, every natural key present   *)
(* before a step is present after it, and no table gets shorter.           *)
C19_KeysOnlyGrow ==
    [][/\ keysOf(customers, "stripeCustomerId")
             \subseteq keysOf(customers', "stripeCustomerId")
       /\ keysOf(subscriptions, "stripeSubscriptionId")
             \subseteq keysOf(subscriptions', "stripeSubscriptionId")
       /\ keysOf(payments, "stripePaymentIntentId")
             \subseteq keysOf(payments', "stripePaymentIntentId")
       /\ keysOf(checkout_sessions, "stripeCheckoutSessionId")
             \subseteq keysOf(checkout_sessions', "stripeCheckoutSessionId")
       /\ keysOf(invoices, "stripeInvoiceId")
             \subseteq keysOf(invoices', "stripeInvoiceId")
       /\ Len(customers') >= Len(customers)
       /\ Len(subscriptions') >= Len(subscriptions)
       /\ Len(payments') >= Len(payments)
       /\ Len(checkout_sessions') >= Len(checkout_sessions)
       /\ Len(invoices') >= Len(invoices)
      ]_vars

\* a webhook request has just applied subscription.deleted to the stored
\* subscription, which is still in its table
C19_Witness ==
    \E p \in Procs :
        /\ pc[p] = "hooks"
        /\ event[p].type = "customer.subscription.deleted"
        /\ Len(subscriptions) = 1
        /\ subscriptions[1].stripeSubscriptionId = event[p].object.id
        /\ subscriptions[1].status = "canceled"

(* C20: from a table without subscription s, handleSubscriptionCreated(s,  *)
(* c, quantity q1) followed by handleSubscriptionUpdated(s, quantity q2)   *)
(* leaves exactly one row for s, with quantity q2, the update's status,    *)
(* currentPeriodEnd and cancelAtPeriodEnd, and the creation's              *)
(* stripeCustomerId and priceId.                                           *)
C20_CreatedThenUpdated ==
    \A a \in SubscriptionCreatedArgs, u \in SubscriptionUpdatedArgs :
        (/\ u.stripeSubscriptionId = a.stripeSubscriptionId
         /\ u.quantity # None
         /\ ~present(subscriptions, "stripeSubscriptionId",
                     a.stripeSubscriptionId))
           => LET after ==
                      handleSubscriptionUpdated(
                          handleSubscriptionCreated(subscriptions, a, now), u)
                  row == inserted(after)
              IN /\ Len(after) = Len(subscriptions) + 1
                 /\ rowsOf(after, "stripeSubscriptionId",
                           a.stripeSubscriptionId) = 1
                 /\ row.stripeSubscriptionId = a.stripeSubscriptionId
                 /\ row.quantity = u.quantity
                 /\ row.status = u.status
                 /\ row.currentPeriodEnd = u.currentPeriodEnd
                 /\ row.cancelAtPeriodEnd = u.cancelAtPeriodEnd
                 /\ row.stripeCustomerId = a.stripeCustomerId
                 /\ row.priceId = a.priceId

\* the subscription created with quantity 5 at price_1 for cus_A has been
\* updated to quantity 10 and status past_due
C20_Witness ==
    /\ Len(subscriptions) = 1
    /\ \E a \in SubscriptionCreatedArgs, u \in SubscriptionUpdatedArgs :
          /\ a.quantity = Some(5) /\ u.quantity = Some(10)
          /\ subscriptions =
                handleSubscriptionUpdated(
                    handleSubscriptionCreated(<<>>, a, StartMs), u)
    /\ subscriptions[1].quantity = Some(10)
    /\ subscriptions[1].status = "past_due"
    /\ subscriptions[1].stripeCustomerId = "cus_A"
    /\ subscriptions[1].priceId = "price_1"

----------------------------------------------------------------------------
(* Listing payments by a secondary key *)

\* listPayments with .first() in place of .collect()
listPaymentsFirst(table, stripeCustomerId) ==
    first(table, "stripeCustomerId", Some(stripeCustomerId))

listPayments(table, stripeCustomerId) ==
    collect(table, "stripeCustomerId", Some(stripeCustomerId))

\* the rows of a table whose optional field holds the value
rowsWith(table, field, value) ==
    {table[i] : i \in {j \in 1..Len(table) : value \in table[j][field]}}

(* C21: in every state listPayments(c), listPaymentsByUserId(u) and        *)
(* listPaymentsByOrgId(o) return exactly the Payment rows whose            *)
(* stripeCustomerId, userId or orgId is the argument, whatever the order   *)
(* in which the rows were inserted.                                        *)
C21_ListingIsExact ==
    /\ \A c \in {"cus_A", "cus_B", "cus_C"} :
          listPayments(payments, c) = rowsWith(payments, "stripeCustomerId", c)
    /\ \A u \in {"u_1", "u_2"} :
          listPaymentsByUserId(payments, u) = rowsWith(payments, "userId", u)
    /\ \A o \in {"org_1", "org_2", "org_3"} :
          listPaymentsByOrgId(payments, o) = rowsWith(payments, "orgId", o)

\* three payments were inserted, the one of cus_B between the two of
\* cus_A; the listing for cus_A is the first and the third, the listing
\* for org_2 the second alone
C21_Witness ==
    /\ Len(payments) = 3
    /\ payments[1].stripeCustomerId = Some("cus_A")
    /\ payments[2].stripeCustomerId = Some("cus_B")
    /\ payments[3].stripeCustomerId = Some("cus_A")
    /\ payments[2].orgId = Some("org_2")
    /\ listPayments(payments, "cus_A") = {payments[1], payments[3]}
    /\ listPaymentsByOrgId(payments, "org_2") = {payments[2]}
    /\ listPaymentsByUserId(payments, "u_1") =
          {payments[1], payments[2], payments[3]}

----------------------------------------------------------------------------
(* Notifications for a row that is not there *)

\* the row the awaited mutation of request p would patch is not in its table
absentFor(p) ==
    IF pc[p] = "updatePaymentCustomer"
    THEN ~present(payments, "stripePaymentIntentId",
                  The(event[p].object.payment_intent))
    ELSE /\ pc[p] = "runMutation"
         /\ CASE event[p].type = "customer.updated"
                   -> ~present(customers, "stripeCustomerId",
                               event[p].object.id)
              [] event[p].type \in {"customer.subscription.updated",
                                    "customer.subscription.deleted"}
                   -> ~present(subscriptions, "stripeSubscriptionId",
                               event[p].object.id)
              [] event[p].type \in {"invoice.paid",
                                    "invoice.payment_succeeded",
                                    "invoice.payment_failed"}
                   -> ~present(invoices, "stripeInvoiceId",
                               event[p].object.id)
              [] OTHER -> FALSE

\* the patching handlers return the table they were given when it has no
\* row for the key of the arguments
absentIsNoOp ==
    /\ \A a \in CustomerArgs :
          ~present(customers, "stripeCustomerId", a.stripeCustomerId)
             => handleCustomerUpdated(customers, a) = customers
    /\ \A a \in SubscriptionUpdatedArgs :
          ~present(subscriptions, "stripeSubscriptionId",
                   a.stripeSubscriptionId)
             => handleSubscriptionUpdated(subscriptions, a) = subscriptions
    /\ \A a \in SubscriptionDeletedArgs :
          ~present(subscriptions, "stripeSubscriptionId",
                   a.stripeSubscriptionId)
             => handleSubscriptionDeleted(subscriptions, a) = subscriptions
    /\ \A a \in InvoicePaidArgs :
          ~present(invoices, "stripeInvoiceId", a.stripeInvoiceId)
             => handleInvoicePaid(invoices, a) = invoices
    /\ \A a \in InvoicePaymentFailedArgs :
          ~present(invoices, "stripeInvoiceId", a.stripeInvoiceId)
             => handleInvoicePaymentFailed(invoices, a) = invoices
    /\ \A a \in PaymentCustomerArgs :
          ~present(payments, "stripePaymentIntentId", a.stripePaymentIntentId)
             => updatePaymentCustomer(payments, a) = payments

(* C22: customer.updated, subscription.updated, subscription.deleted,      *)
(* invoice.paid / invoice.payment_succeeded, invoice.payment_failed and    *)
(* updatePaymentCustomer for a natural key without row insert nothing and  *)
(* change nothing: the handler returns its table as it was, and the step   *)
(* of a webhook request that awaits it leaves all five tables unchanged    *)
(* and, unless the call itself was rejected with 500, goes on to the hooks *)
(* without a response.                                                     *)
C22_AbsentRowIsNoOp ==
    /\ []absentIsNoOp
    /\ [][\A p \in Procs :
             (stepOf(p) /\ absentFor(p))
                => /\ UNCHANGED tables
                   /\ \/ pc'[p] = "hooks" /\ response' = 0
                      \/ pc'[p] = "idle" /\ response' = 500
         ]_vars

\* a request has processed invoice.payment_failed while the only invoice
\* stored is another one, which is as it was created
C22_Witness ==
    \E p \in Procs :
        /\ pc[p] = "hooks"
        /\ event[p].type = "invoice.payment_failed"
        /\ Len(invoices) = 1
        /\ invoices[1].stripeInvoiceId = "in_2"
        /\ invoices[1].stripeInvoiceId # event[p].object.id
        /\ \E a \in InvoiceCreatedArgs :
              invoices = handleInvoiceCreated(<<>>, a, invoices[1]._creationTime)
        /\ customers = <<>> /\ subscriptions = <<>>
        /\ payments = <<>> /\ checkout_sessions = <<>>

----------------------------------------------------------------------------
\* the request holds a verified event of a type processEvent has no case for
unhandled(p) == event[p] # NoEvent /\ event[p].type \notin HandledTypes

(* C23: a verified event of a type that is not handled makes processEvent  *)
(* await nothing: the request is at the hooks as soon as it is received,   *)
(* none of its steps changes a table, no step of processEvent answers it,  *)
(* and once the hooks have returned it is answered 200 "received"; the     *)
(* only other answer it can get is the 500 of a hook that raised.          *)
C23_UnhandledTypeAcknowledged ==
    [][\A p \in Procs :
          /\ (stepOf(p) /\ unhandled(p)')
                => pc'[p] = "hooks" /\ response' = 0 /\ UNCHANGED tables
          /\ (stepOf(p) /\ unhandled(p))
                => /\ pc[p] = "hooks"
                   /\ UNCHANGED tables
                   /\ \/ pc'[p] = "respond" /\ response' = 0
                      \/ pc'[p] = "idle" /\ response' = 500
          /\ (stepOf(p) /\ pc[p] = "respond")
                => /\ pc'[p] = "idle"
                   /\ response' = 200 /\ body' = Received
                   /\ UNCHANGED tables
      ]_vars

\* a charge.succeeded event is past processEvent while the store holds a
\* customer, and nothing has been answered
C23_Witness ==
    \E p \in Procs :
        /\ unhandled(p)
        /\ event[p].type = "charge.succeeded"
        /\ pc[p] = "hooks"
        /\ Len(customers) = 1
        /\ response = 0

----------------------------------------------------------------------------
\* the answers to a request that failed authentication
AuthenticationFailures ==
    {SecretNotConfigured, NoSignature, VerificationFailed}

\* every request without webhook secret, without signature header or with
\* a signature that does not verify is rejected with one of those answers
failuresRejected ==
    \A webhookSecret \in BOOLEAN, signature \in Signatures,
       secretKey \in BOOLEAN :
       (~webhookSecret \/ signature # "valid")
          => LET rejected == rejection(webhookSecret, signature, secretKey)
             IN /\ rejected[1] # 0
                /\ \/ rejected[2] \in AuthenticationFailures
                   \/ ~secretKey /\ rejected[2] = KeyNotConfigured

(* C24: a request that fails authentication (no webhook secret, no         *)
(* signature header, or a signature that does not verify) is rejected, and *)
(* the step that rejects it starts nothing: no request enters processEvent *)
(* or the hooks (pc, event and invoice of both requests are as before) and *)
(* the five tables are unchanged.                                          *)
C24_RejectedNeverDispatched ==
    /\ []failuresRejected
    /\ [][body' \in AuthenticationFailures \cup {KeyNotConfigured}
             => /\ UNCHANGED tables
                /\ UNCHANGED procs
                /\ started' = started + 1
         ]_vars

\* a request was rejected for its signature while the store holds a
\* customer and no request is in flight
C24_Witness ==
    /\ body = VerificationFailed
    /\ response = 400
    /\ Len(customers) = 1
    /\ \A p \in Procs : pc[p] = "idle" /\ event[p] = NoEvent

(* C25 (as claimed): every answer to an authentication failure (bad        *)
(* signature, missing signature, missing signing secret) has a status of   *)
(* the client-error class, so none has the status 500 of a processing      *)
(* failure.                                                                *)
C25_AuthFailureIsClientError ==
    body \in AuthenticationFailures => response \in 400..499

----------------------------------------------------------------------------
(* C26: a request that holds a verified event and ends anywhere before the *)
(* statement after the try block (an awaited mutation or query rejected,   *)
(* onEvent or the custom handler raised) is answered 500 "Error processing *)
(* webhook"; 200 is answered only by that statement, which a request       *)
(* reaches only from the hooks, when they have returned, and the hooks     *)
(* only from processEvent.                                                 *)
C26_FailuresNeverSwallowed ==
    [][/\ \A p \in Procs :
            stepOf(p)
               => /\ (pc'[p] = "idle" /\ pc[p] # "respond")
                        => response' = 500 /\ body' = ProcessingError
                  /\ pc'[p] = "respond" => pc[p] = "hooks"
                  /\ pc[p] = "hooks" => pc'[p] \in {"respond", "idle"}
                  /\ (pc'[p] = "hooks" /\ pc[p] = "idle")
                        => unhandled(p)'
       /\ response' = 200
             => /\ body' = Received
                /\ \E p \in Procs : pc[p] = "respond" /\ pc'[p] = "idle"
      ]_vars

\* a request was answered with the processing failure while the other one
\* is past its hooks, about to be answered 200
C26_Witness ==
    /\ response = 500
    /\ body = ProcessingError
    /\ \E p, q \in Procs :
          /\ pc[p] = "idle"
          /\ pc[q] = "respond"

----------------------------------------------------------------------------
\* a step of the call a
callStep(a) == call'[a] # call[a]

(* C27: a call of updateSubscriptionQuantity changes a table only in its   *)
(* runMutation step, which it reaches only from a subscriptionItems.update *)
(* that set the remote quantity, itself reached only from a retrieve that  *)
(* found the subscription with an item; a call that ends at the retrieve   *)
(* (it rejected, or the subscription has no items) or at the item update   *)
(* (it rejected) throws to its caller and leaves the five tables           *)
(* unchanged.                                                              *)
C27_LocalPatchAfterRemote ==
    [][\A a \in Callers :
          callStep(a)
             => /\ call[a].pc # "runMutation" => UNCHANGED tables
                /\ (/\ call[a].pc = "retrieve"
                    /\ remoteQuantity[call[a].args.stripeSubscriptionId]
                          = None)
                      => call'[a].pc = "idle" /\ returned' = "error"
                /\ (/\ call[a].pc \in {"retrieve", "subscriptionItems.update"}
                    /\ call'[a].pc = "idle")
                      => returned' = "error"
                /\ call'[a].pc = "subscriptionItems.update"
                      => /\ call[a].pc = "retrieve"
                         /\ remoteQuantity[call[a].args.stripeSubscriptionId]
                               # None
                /\ call'[a].pc = "runMutation"
                      => /\ call[a].pc = "subscriptionItems.update"
                         /\ remoteQuantity'[call[a].args.stripeSubscriptionId]
                               = Some(call[a].args.quantity)
      ]_vars

\* the one call made has thrown while the store holds the subscription
\* sub_2, which has no items at the remote service: the row is as it was
\* created and the remote quantities are as they were
C27_Witness ==
    /\ called = 1
    /\ returned = "error"
    /\ \A a \in Callers : call[a] = NoCall
    /\ remoteQuantity = RemoteStart
    /\ Len(subscriptions) = 1
    /\ subscriptions[1].stripeSubscriptionId = "sub_2"
    /\ \E args \in SubscriptionCreatedArgs :
          subscriptions = handleSubscriptionCreated(
                              <<>>, args, subscriptions[1]._creationTime)

(* C28 (as claimed): whenever a call updateSubscriptionQuantity(s, q)      *)
(* returns null, the subscriptions table holds a row for s and its         *)
(* quantity is q.                                                          *)
C28_ReturnedMeansPatched ==
    [][\A a \in Callers :
          (callStep(a) /\ returned' = "null")
             => \E i \in 1..Len(subscriptions') :
                   /\ subscriptions'[i].stripeSubscriptionId
                         = call[a].args.stripeSubscriptionId
                   /\ subscriptions'[i].quantity
                         = Some(call[a].args.quantity)
      ]_vars

----------------------------------------------------------------------------
\* the calls processEvent awaits
DefaultCalls ==
    {"runMutation", "updatePaymentCustomer", "retrieveInvoice",
     "listSubscriptions", "handlePaymentIntentSucceeded"}

\* the row a creation event stands for is stored
stored(e) ==
    CASE e.type = "customer.created"
            -> present(customers, "stripeCustomerId", e.object.id)
      [] e.type = "customer.subscription.created"
            -> present(subscriptions, "stripeSubscriptionId", e.object.id)
      [] e.type = "checkout.session.completed"
            -> present(checkout_sessions, "stripeCheckoutSessionId",
                       e.object.id)
      [] e.type \in {"invoice.created", "invoice.finalized"}
            -> present(invoices, "stripeInvoiceId", e.object.id)
      [] OTHER -> TRUE

\* while the hooks of a request run, what processEvent stores for its event
\* is stored
hooksSeeDefault == \A p \in Procs : pc[p] = "hooks" => stored(event[p])

C30_PaidAndSucceededAlike ==
    [][\A p \in Procs :
          (/\ stepOf(p)
           /\ pc[p] = "runMutation"
           /\ event[p].type \in {"invoice.paid", "invoice.payment_succeeded"})
             => \/ /\ pc'[p] = "hooks"
                   /\ invoices' = handleInvoicePaid(
                                      invoices,
                                      [stripeInvoiceId |-> event[p].object.id,
                                       amountPaid |->
                                           event[p].object.amount_paid])
                   /\ UNCHANGED <<customers, subscriptions, payments,
                                  checkout_sessions>>
                \/ /\ pc'[p] = "idle"
                   /\ response' = 500
                   /\ UNCHANGED tables
      ]_vars

\* an invoice.payment_succeeded request has made the stored invoice paid,
\* with the amount of the event, which is not the amount it was created with
C30_Witness ==
    \E p \in Procs :
        /\ pc[p] = "hooks"
        /\ event[p].type = "invoice.payment_succeeded"
        /\ Len(invoices) = 1
        /\ invoices[1].stripeInvoiceId = event[p].object.id
        /\ invoices[1].status = "paid"
        /\ invoices[1].amountPaid = event[p].object.amount_paid
        /\ invoices[1].amountPaid = 700
        /\ invoices[1].amountDue = 500

----------------------------------------------------------------------------
\* the request holds a checkout.session.completed event
isCheckoutCompleted(p) == event[p].type = "checkout.session.completed"

(* C31: when a request has processed checkout.session.completed for the    *)
(* session k (its handleCheckoutSessionCompleted has run), checkout_sessions *)
(* holds exactly one row for k, with status "complete", inserted when      *)
(* there was none and patched in place otherwise; the request goes on to   *)
(* updatePaymentCustomer exactly when the mode of the session is "payment" *)
(* and it has a customer and a payment intent, and to the hooks otherwise; *)
(* and nothing else awaits updatePaymentCustomer.                          *)
C31_CheckoutRowAndBackfill ==
    [][\A p \in Procs :
          /\ (/\ stepOf(p)
              /\ pc[p] = "runMutation"
              /\ isCheckoutCompleted(p)
              /\ pc'[p] # "idle")
                => LET o == event[p].object
                       had == present(checkout_sessions,
                                      "stripeCheckoutSessionId", o.id)
                   IN /\ rowsOf(checkout_sessions',
                                "stripeCheckoutSessionId", o.id) = 1
                      /\ \A i \in 1..Len(checkout_sessions') :
                            checkout_sessions'[i].stripeCheckoutSessionId
                               = o.id
                               => checkout_sessions'[i].status = "complete"
                      /\ Len(checkout_sessions')
                            = Len(checkout_sessions) + (IF had THEN 0 ELSE 1)
                      /\ pc'[p] = "updatePaymentCustomer"
                            <=> /\ o.mode = Some("payment")
                                /\ o.customer # None
                                /\ o.payment_intent # None
                      /\ pc'[p] \in {"updatePaymentCustomer", "hooks"}
          /\ (stepOf(p) /\ pc'[p] = "updatePaymentCustomer")
                => pc[p] = "runMutation" /\ isCheckoutCompleted(p)
      ]_vars

\* a session of mode "subscription" that names a customer and a payment
\* intent has been processed: its row is stored, complete, and the payment
\* of that intent is still without customer
C31_Witness ==
    \E p \in Procs :
        /\ pc[p] = "hooks"
        /\ isCheckoutCompleted(p)
        /\ event[p].object.mode = Some("subscription")
        /\ event[p].object.customer # None
        /\ event[p].object.payment_intent # None
        /\ Len(checkout_sessions) = 1
        /\ checkout_sessions[1].stripeCheckoutSessionId = event[p].object.id
        /\ checkout_sessions[1].status = "complete"
        /\ Len(payments) = 1
        /\ Some(payments[1].stripePaymentIntentId)
              = event[p].object.payment_intent
        /\ payments[1].stripeCustomerId = None

----------------------------------------------------------------------------
\* the rows in which two states of a table differ (a row only one of them
\* has differs)
differing(old, new) ==
    {i \in 1..(IF Len(old) > Len(new) THEN Len(old) ELSE Len(new)) :
        i > Len(old) \/ i > Len(new) \/ old[i] # new[i]}

\* the number of rows in which two states of the five tables differ
rowsChanged(old, new) ==
    Cardinality(differing(old[1], new[1]))
    + Cardinality(differing(old[2], new[2]))
    + Cardinality(differing(old[3], new[3]))
    + Cardinality(differing(old[4], new[4]))
    + Cardinality(differing(old[5], new[5]))

\* nothing but the request of p has run since it arrived: no other request
\* was in flight then and no operation has started since
inIsolation(p) == before[p].alone /\ started = before[p].started

(* C32 (as claimed): when a request that was processed with nothing else   *)
(* running is answered with the processing failure, at most one row of the *)
(* five tables differs from what the tables were when it arrived.          *)
C32_FailureTouchesOneRow ==
    [][\A p \in Procs :
          (/\ stepOf(p)
           /\ pc'[p] = "idle"
           /\ response' = 500 /\ body' = ProcessingError
           /\ inIsolation(p))
             => rowsChanged(before[p].tables, tables') <= 1
      ]_vars

----------------------------------------------------------------------------
\* getCustomer: the customer of a key (None for null)
getCustomer(table, stripeCustomerId) ==
    {table[i] : i \in unique(table, "stripeCustomerId", stripeCustomerId)}

\* getCustomer returns one customer, with the email, name and metadata of
\* the arguments
returnsSupplied(table, args) ==
    LET customer == getCustomer(table, args.stripeCustomerId)
    IN /\ Cardinality(customer) = 1
       /\ The(customer).email = args.email
       /\ The(customer).name = args.name
       /\ The(customer).metadata = args.metadata

\* a call of createOrUpdateCustomer on the customers of this state, and a
\* later call for the same key on what it leaves
upsertsCustomer ==
    \A a \in CustomerArgs :
       LET key == a.stripeCustomerId
           had == present(customers, "stripeCustomerId", key)
           id == createOrUpdateCustomerReturns(customers, a)
           once == createOrUpdateCustomer(customers, a, now)
       IN /\ ~had => /\ id = Len(customers) + 1
                     /\ Len(once) = Len(customers) + 1
          /\ had => /\ id \in unique(customers, "stripeCustomerId", key)
                    /\ Len(once) = Len(customers)
          /\ unique(once, "stripeCustomerId", key) = {id}
          /\ once[id]._id = id
          /\ returnsSupplied(once, a)
          /\ \A b \in CustomerArgs :
                b.stripeCustomerId = key
                   => LET twice == createOrUpdateCustomer(once, b, later)
                      IN /\ createOrUpdateCustomerReturns(once, b) = id
                         /\ Len(twice) = Len(once)
                         /\ unique(twice, "stripeCustomerId", key) = {id}
                         /\ returnsSupplied(twice, b)

(* C33: createOrUpdateCustomer is an upsert by stripeCustomerId: on any    *)
(* reachable customers table the call for a key without a row appends one  *)
(* and returns its id, the call for a key with a row returns the id of     *)
(* that row and adds none; a later call for the key returns the same id    *)
(* and leaves that one row; after each call getCustomer returns the email, *)
(* name and metadata of the call's arguments; and no operation moves a     *)
(* customer to another id, so the id stays the one the first call gave.    *)
C33_CustomerUpsert ==
    /\ []upsertsCustomer
    /\ [][\A i \in 1..Len(customers) :
             /\ i <= Len(customers')
             /\ customers'[i]._id = customers[i]._id
             /\ customers'[i].stripeCustomerId = customers[i].stripeCustomerId
         ]_vars

\* two customers are stored and a call for the first of them with other
\* values would return its id and replace its email
C33_Witness ==
    /\ Len(customers) = 2
    /\ customers[1].stripeCustomerId = "cus_A"
    /\ customers[1].email = Some("a@x.io")
    /\ \E b \in CustomerArgs :
          /\ b.stripeCustomerId = "cus_A"
          /\ b.email = Some("b@x.io")
          /\ createOrUpdateCustomerReturns(customers, b) = 1
          /\ createOrUpdateCustomer(customers, b, now)[1].email
                = Some("b@x.io")
          /\ createOrUpdateCustomer(customers, b, now)[2] = customers[2]

----------------------------------------------------------------------------
(* C34: no step (a webhook request processing any event, or a direct call  *)
(* of any mutation) removes a subscription or changes the                  *)
(* stripeSubscriptionId, the stripeCustomerId or the priceId of one: each  *)
(* row keeps the three it was inserted with.                               *)
C34_SubscriptionIdentityKept ==
    [][\A i \in 1..Len(subscriptions) :
          /\ i <= Len(subscriptions')
          /\ subscriptions'[i].stripeSubscriptionId
                = subscriptions[i].stripeSubscriptionId
          /\ subscriptions'[i].stripeCustomerId
                = subscriptions[i].stripeCustomerId
          /\ subscriptions'[i].priceId = subscriptions[i].priceId
      ]_vars

\* the subscription inserted for cus_A at price_1 has since taken status
\* and quantity from a notification that names cus_B and price_2
C34_Witness ==
    /\ Len(subscriptions) = 1
    /\ subscriptions[1].stripeSubscriptionId = "sub_1"
    /\ subscriptions[1].stripeCustomerId = "cus_A"
    /\ subscriptions[1].priceId = "price_1"
    /\ subscriptions[1].status = "past_due"
    /\ subscriptions[1].quantity = Some(10)

----------------------------------------------------------------------------
\* the linkage fields of every payment are the orgId and userId of its
\* stored metadata
paymentsProjected ==
    \A i \in 1..Len(payments) :
       /\ payments[i].orgId = MetaGet(The(payments[i].metadata), "orgId")
       /\ payments[i].userId = MetaGet(The(payments[i].metadata), "userId")

(* C35: no step removes a payment or changes a field of one other than     *)
(* stripeCustomerId (amount, currency, status, created, metadata, orgId,   *)
(* userId, the key and the system fields stay as inserted), whatever a     *)
(* repeated payment_intent.succeeded or an updatePaymentCustomer carry;    *)
(* and in every reachable state the orgId and userId of a payment are      *)
(* those of its stored metadata.                                           *)
C35_PaymentFieldsKept ==
    /\ []paymentsProjected
    /\ [][\A i \in 1..Len(payments) :
             /\ i <= Len(payments')
             /\ payments'[i] =
                   [payments[i] EXCEPT !.stripeCustomerId =
                                           payments'[i].stripeCustomerId]
         ]_vars

\* the payment inserted without customer and without metadata has got a
\* customer since, from a notification or a link that named one, and
\* nothing else of it has changed
C35_Witness ==
    /\ Len(payments) = 1
    /\ payments[1].stripePaymentIntentId = "pi_1"
    /\ payments[1].stripeCustomerId # None
    /\ payments[1].amount = 1999
    /\ payments[1].created = 1000
    /\ payments[1].metadata = Some(EmptyBag)
    /\ payments[1].orgId = None /\ payments[1].userId = None

----------------------------------------------------------------------------
(* C36 (as claimed): in every reachable state, each subscription whose     *)
(* stored metadata has an orgId (a userId) has that value in its orgId     *)
(* (userId) field.                                                         *)
C36_LinkageCopiesMetadata ==
    \A i \in 1..Len(subscriptions) :
       /\ \A o \in MetaGet(The(subscriptions[i].metadata), "orgId") :
             subscriptions[i].orgId = Some(o)
       /\ \A u \in MetaGet(The(subscriptions[i].metadata), "userId") :
             subscriptions[i].userId = Some(u)

----------------------------------------------------------------------------
\* at least two calls were made, every call made has returned null, and
\* none is in flight
allSucceeded ==
    /\ called >= 2
    /\ succeeded = called
    /\ \A a \in Callers : call[a] = NoCall

(* C37 (as claimed): when the calls of updateSubscriptionQuantity made for *)
(* the subscription (at least two, possibly overlapping) have all returned *)
(* null, and nothing else has written the store or the remote service,    *)
(* the quantity of the local row is the quantity the remote service holds. *)
C37_ConcurrentCallsConverge ==
    allSucceeded
       => \A i \in 1..Len(subscriptions) :
             subscriptions[i].quantity
                = remoteQuantity[subscriptions[i].stripeSubscriptionId]

----------------------------------------------------------------------------
\* the subscriptions table has no row for the key of the arguments
absent(a) ==
    unique(subscriptions, "stripeSubscriptionId", a.stripeSubscriptionId)
        = None

(* C38: updateSubscriptionMetadata called for a stripeSubscriptionId that  *)
(* has no row in the subscriptions table throws the error "Subscription    *)
(* <id> not found in database" and leaves the table as it was: it inserts  *)
(* no subscription.                                                        *)
C38_MetadataOfAbsentThrows ==
    \A a \in SubscriptionMetadataArgs :
        absent(a)
           => /\ updateSubscriptionMetadataError(subscriptions, a)
                    = NotFoundInDatabase(a.stripeSubscriptionId)
              /\ updateSubscriptionMetadataThrows(subscriptions, a)
              /\ updateSubscriptionMetadata(subscriptions, a) = subscriptions

\* the table holds a subscription, and a call for one it does not hold
\* throws not found while a call for the one it holds returns
C38_Witness ==
    /\ started > 0
    /\ subscriptions # <<>>
    /\ \E a \in SubscriptionMetadataArgs :
          /\ absent(a)
          /\ updateSubscriptionMetadataError(subscriptions, a)
                = NotFoundInDatabase(a.stripeSubscriptionId)
    /\ \E a \in SubscriptionMetadataArgs :
          updateSubscriptionMetadataError(subscriptions, a) = NoError

----------------------------------------------------------------------------
(* C39 (as claimed): an invoice row whose status is "paid" has status      *)
(* "paid" after every step: no later or repeated invoice.created,          *)
(* invoice.finalized or invoice.payment_failed moves it to another status. *)
C39_PaidIsTerminal ==
    [][\A i \in 1..Len(invoices) :
          invoices[i].status = "paid"
             => /\ i <= Len(invoices')
                /\ invoices'[i].status = "paid"
      ]_vars

====
